---------------------------- MODULE Spec2Model ----------------------------
(***************************************************************************)
(* Shot generation and continuity pipeline of drama-director.             *)
(*                                                                         *)
(*   App (src/unnamed/part_000): the shot sequence `scenes`, the mode, and *)
(*   the asynchronous handlers handleGenerateFirstFrame and                *)
(*   handleGenerateVideo.  Every handler invocation in flight is a task:   *)
(*   it keeps what it reads from the `scenes` and `mode` of the render it  *)
(*   was created in (its closure) and its position between awaits.         *)
(*   setScenes(prev => ...) is applied to the current sequence.            *)
(*                                                                         *)
(*   withRetry (src/services/gemini.ts): one execution of the retry        *)
(*   executor against a function whose outcome at each invocation is      *)
(*   fixed by `script`.                                                    *)
(*                                                                         *)
(*   splitScriptSmartly and generatePromptsForContinuousSegments           *)
(*   (src/services/gemini.ts): one call, from its inputs and the text the  *)
(*   model answered to what the call returns or throws.                    *)
(***************************************************************************)
EXTENDS Integers, Sequences, FiniteSets, Bags, TLC

(***************************************************************************)
(* Bounds of the model.                                                    *)
(***************************************************************************)
\* Longest shot sequence.
MaxScenes == 2

\* Handler invocations in flight at once.
MaxTasks == 2

\* Largest maxRetries a withRetry execution is given.
MaxN == 3

(***************************************************************************)
(* Values.                                                                 *)
(***************************************************************************)
Undefined == "undefined"

Modes == {"storyboard", "single"}

Statuses == {"idle", "generating_video", "completed", "error"}

ImageStatuses == {"idle", "generating", "completed", "error"}

\* Data URLs returned by generateImageFromPrompt.
GeneratedImages == {"img1"}

\* Object URLs returned by generateVideoForScene.
VideoUrls == {"vid1"}

\* canvas.toDataURL of the last frame of a video (part_000:181).
LastFrameOf(videoUrl) == "lastFrame:" \o videoUrl

\* e.message of a thrown error.
Messages == {"boom"}

\* What generateVideoForScene rejects with, as <<code, status, message>>:
\* an API error of ai.models.generateVideos (gemini.ts:444) or of the
\* polling (447), here the rate-limit one; the plain Errors of 454 and 459,
\* which carry a message; and a rejection that carries none.
VideoFailures ==
    {<<429, "RESOURCE_EXHAUSTED", "boom">>, <<0, "", "boom">>,
     <<0, "", Undefined>>}

\* The plain Error of gemini.ts:459 (download failed).
DownloadFailure == <<0, "", "boom">>

\* The fallback text of part_000:228.
UnknownError == "unknown error"

VARIABLES
    mode,       \* AppMode
    scenes,     \* Scene[]
    tasks,      \* bag of the handler invocations in flight
    last,       \* the last operation applied (history)
    call,       \* one withRetry execution
    svc         \* one call of a script service of gemini.ts

vars == <<mode, scenes, tasks, last, call, svc>>

--------------------------------------------------------------------------
(***************************************************************************)
(* Scene records (types.ts) and the array helpers the handlers use.        *)
(***************************************************************************)
NewScene(id) ==
    [id |-> id,
     status |-> "idle",
     imageStatus |-> "idle",
     generatedImage |-> Undefined,
     videoUrl |-> Undefined,
     errorMessage |-> Undefined,
     imageErrorMessage |-> Undefined]

\* Array.prototype.findIndex(s => s.id === id), 1-based; 0 when absent.
FindIndex(seq, id) ==
    IF \E k \in 1..Len(seq) : seq[k].id = id
    THEN CHOOSE k \in 1..Len(seq) :
            seq[k].id = id /\ \A j \in 1..(k - 1) : seq[j].id # id
    ELSE 0

(***************************************************************************)
(* Tasks.  A handler reads its closure's `scenes` only at its own shot and *)
(* at the shot after it; the task keeps those reads.                       *)
(***************************************************************************)
\* What handleGenerateVideo reads from the render it was created in, all of
\* it after generateVideoForScene has resolved: mode (part_000:206),
\* sceneIndex and scenes.length (203, 206), and whether
\* scenes[sceneIndex + 1].generatedImage is set (210-211).
Closure(m, seq, id) ==
    LET sceneIndex == FindIndex(seq, id)
    IN [mode |-> m,
        found |-> sceneIndex # 0,
        hasNext |-> sceneIndex < Len(seq),
        nextHasImage |-> /\ sceneIndex # 0
                         /\ sceneIndex < Len(seq)
                         /\ seq[sceneIndex + 1].generatedImage # Undefined]

\* The closure of a task that reads it no more.
NoClosure ==
    [mode |-> "storyboard", found |-> FALSE, hasNext |-> FALSE,
     nextHasImage |-> FALSE]

ImageTask(id) ==
    [pc |-> "image", id |-> id, closure |-> NoClosure,
     videoUrl |-> Undefined]

VideoTask(m, seq, id) ==
    [pc |-> "video", id |-> id, closure |-> Closure(m, seq, id),
     videoUrl |-> Undefined]

Running == BagToSet(tasks)

Start(task) == tasks (+) SetToBag({task})

Finish(task) == tasks (-) SetToBag({task})

Replace(task, newTask) == (tasks (-) SetToBag({task})) (+) SetToBag({newTask})

(***************************************************************************)
(* Shot ids.  crypto.randomUUID() never returns a value twice, and the     *)
(* handlers only compare ids for equality, so ids are kept up to renaming: *)
(* a shot's id is the ordinal of its creation within the current sequence  *)
(* (no operation removes or reorders shots), and the ids of a replaced     *)
(* sequence, which no later shot can carry, are all renamed to StaleId.    *)
(*                                                                         *)
(* A task whose shot was replaced is kept as StaleTask: what is left of it *)
(* is some of the setScenes calls of its handler, each with the id of the  *)
(* replaced shot (StaleSettles below applies any of them).                 *)
(***************************************************************************)
StaleId == 0

StaleTask ==
    [pc |-> "stale", id |-> StaleId, closure |-> NoClosure,
     videoUrl |-> Undefined]

RECURSIVE Outlive(_)
Outlive(bag) ==
    IF bag = EmptyBag THEN EmptyBag
    ELSE LET t == CHOOSE x \in BagToSet(bag) : TRUE
         IN Outlive(bag (-) SetToBag({t})) (+) SetToBag({StaleTask})

\* What a call throws: e.code (0 when the error has none) and e.status (""
\* when it has none).  A plain Error, as thrown at gemini.ts:131 and
\* gemini.ts:454, has neither.
Err(code, status) == [ok |-> FALSE, value |-> Undefined, code |-> code, status |-> status]

\* No error: `let lastError` before its first assignment.
NoError == [ok |-> FALSE, value |-> Undefined, code |-> 0, status |-> "unassigned"]

\* The history record: the last operation, the shot it was requested for,
\* and what it found; for a failure, the error caught, its message, and how
\* many times the handler had invoked the collaborator that threw it; for a
\* completed first-frame generation, whether the step before it was the
\* continuity write into its shot.
Outcome(name) ==
    [op |-> name, id |-> StaleId, nextSetAtCompletion |-> FALSE,
     nextSetAtWrite |-> FALSE, wrote |-> FALSE, replaced |-> FALSE,
     frameWrittenInFlight |-> FALSE,
     error |-> NoError, message |-> Undefined, invocations |-> 0]

--------------------------------------------------------------------------
(***************************************************************************)
(* The state updates of the handlers, as functions of the sequence they    *)
(* are applied to.                                                         *)
(***************************************************************************)
\* Variant of StartImage that also takes the shot's video back to idle.
StartImageResetsVideo(seq, id) ==
    [k \in 1..Len(seq) |->
        IF seq[k].id = id
        THEN [seq[k] EXCEPT !.imageStatus = "generating",
                            !.imageErrorMessage = Undefined,
                            !.status = "idle",
                            !.videoUrl = Undefined]
        ELSE seq[k]]

\* part_000:139
StartImage(seq, id) ==
    [k \in 1..Len(seq) |->
        IF seq[k].id = id
        THEN [seq[k] EXCEPT !.imageStatus = "generating",
                            !.imageErrorMessage = Undefined]
        ELSE seq[k]]

\* Variant of ImageCompleted that writes only into an empty slot.
ImageCompletedGuarded(seq, id, imageUrl) ==
    [k \in 1..Len(seq) |->
        IF seq[k].id = id /\ seq[k].generatedImage = Undefined
        THEN [seq[k] EXCEPT !.generatedImage = imageUrl,
                            !.imageStatus = "completed"]
        ELSE seq[k]]

\* part_000:162
ImageCompleted(seq, id, imageUrl) ==
    [k \in 1..Len(seq) |->
        IF seq[k].id = id
        THEN [seq[k] EXCEPT !.generatedImage = imageUrl,
                            !.imageStatus = "completed"]
        ELSE seq[k]]

\* Variant of ImageFailed that drops the stored image.
ImageFailedDropsImage(seq, id, message) ==
    [k \in 1..Len(seq) |->
        IF seq[k].id = id
        THEN [seq[k] EXCEPT !.imageStatus = "error",
                            !.imageErrorMessage = message,
                            !.generatedImage = Undefined]
        ELSE seq[k]]

\* part_000:164
ImageFailed(seq, id, message) ==
    [k \in 1..Len(seq) |->
        IF seq[k].id = id
        THEN [seq[k] EXCEPT !.imageStatus = "error",
                            !.imageErrorMessage = message]
        ELSE seq[k]]

\* part_000:192
StartVideo(seq, id) ==
    [k \in 1..Len(seq) |->
        IF seq[k].id = id
        THEN [seq[k] EXCEPT !.status = "generating_video",
                            !.errorMessage = Undefined]
        ELSE seq[k]]

\* part_000:202
VideoCompleted(seq, id, videoUrl) ==
    [k \in 1..Len(seq) |->
        IF seq[k].id = id
        THEN [seq[k] EXCEPT !.status = "completed", !.videoUrl = videoUrl]
        ELSE seq[k]]

\* Variant of VideoFailed that drops the shot when it is the last one.
VideoFailedDropsShot(seq, id, message) ==
    IF seq # <<>> /\ seq[Len(seq)].id = id
    THEN SubSeq(seq, 1, Len(seq) - 1)
    ELSE [k \in 1..Len(seq) |->
            IF seq[k].id = id
            THEN [seq[k] EXCEPT !.status = "error", !.errorMessage = message]
            ELSE seq[k]]

\* Variant of VideoFailed without the fallback text.
VideoFailedNoFallback(seq, id, message) ==
    [k \in 1..Len(seq) |->
        IF seq[k].id = id
        THEN [seq[k] EXCEPT !.status = "error", !.errorMessage = message]
        ELSE seq[k]]

\* part_000:228  (e.message || fallback)
VideoFailed(seq, id, message) ==
    [k \in 1..Len(seq) |->
        IF seq[k].id = id
        THEN [seq[k] EXCEPT !.status = "error",
                            !.errorMessage =
                                IF message = Undefined THEN UnknownError
                                ELSE message]
        ELSE seq[k]]

\* Variant of ShouldExtract without the test of the mode.
ShouldExtractAnyMode(closure) ==
    /\ closure.found
    /\ closure.hasNext
    /\ ~closure.nextHasImage

\* part_000:206-211, evaluated on the closure: whether the handler goes on
\* to wait and extract the last frame.
ShouldExtract(closure) ==
    /\ closure.mode = "single"
    /\ closure.found
    /\ closure.hasNext
    /\ ~closure.nextHasImage

\* Variant of ContinuityWrite without the test idx === -1 of part_000:216.
ContinuityWriteUnfound(seq, id, lastFrame) ==
    LET idx == FindIndex(seq, id)
    IN IF idx = Len(seq) THEN seq
       ELSE IF seq[idx + 1].generatedImage = Undefined
            THEN [seq EXCEPT ![idx + 1].generatedImage = lastFrame,
                             ![idx + 1].imageStatus = "completed"]
            ELSE seq

\* Variant of ContinuityWrite that also clears the shot's image error.
ContinuityWriteClearsError(seq, id, lastFrame) ==
    LET idx == FindIndex(seq, id)
    IN IF idx = 0 \/ idx = Len(seq) THEN seq
       ELSE IF seq[idx + 1].generatedImage = Undefined
            THEN [seq EXCEPT ![idx + 1].generatedImage = lastFrame,
                             ![idx + 1].imageStatus = "completed",
                             ![idx + 1].imageErrorMessage = Undefined]
            ELSE seq

\* Variant of ContinuityWrite without the re-check of part_000:219.
ContinuityWriteUnchecked(seq, id, lastFrame) ==
    LET idx == FindIndex(seq, id)
    IN IF idx = 0 \/ idx = Len(seq) THEN seq
       ELSE [seq EXCEPT ![idx + 1].generatedImage = lastFrame,
                        ![idx + 1].imageStatus = "completed"]

\* Variant of ContinuityWrite that leaves imageStatus as it is.
ContinuityWriteImageOnly(seq, id, lastFrame) ==
    LET idx == FindIndex(seq, id)
    IN IF idx = 0 \/ idx = Len(seq) THEN seq
       ELSE IF seq[idx + 1].generatedImage = Undefined
            THEN [seq EXCEPT ![idx + 1].generatedImage = lastFrame]
            ELSE seq

\* part_000:214-223, the functional update applied to the current sequence.
ContinuityWrite(seq, id, lastFrame) ==
    LET idx == FindIndex(seq, id)
    IN IF idx = 0 \/ idx = Len(seq) THEN seq
       ELSE IF seq[idx + 1].generatedImage = Undefined
            THEN [seq EXCEPT ![idx + 1].generatedImage = lastFrame,
                             ![idx + 1].imageStatus = "completed"]
            ELSE seq

\* Variant of ExtractionFailed that reaches the outer catch.
ExtractionFailedSurfaced(seq, id) == VideoFailed(seq, id, "extract")

\* part_000:225, catch (e) { console.warn(e) }: the sequence after a failed
\* extraction.
ExtractionFailed(seq, id) == seq

\* Variant of CanRequestFirstFrame with the idle control only.
CanRequestFirstFrameNotFromError(m, s) ==
    /\ m = "single"
    /\ s.imageStatus = "idle"

\* SceneCard.tsx:247-293: a control that calls handleImageGenerateClick is
\* rendered; part_000:357: the handler is passed only in continuous mode.
CanRequestFirstFrame(m, s) ==
    /\ m = "single"
    /\ \/ s.generatedImage # Undefined /\ s.imageStatus # "generating"
       \/ s.imageStatus = "error"
       \/ /\ s.imageStatus \notin {"error", "generating"}
          /\ s.generatedImage = Undefined
          /\ s.imageStatus = "idle"

\* Variant of CanRequestVideo with a control on completed shots too.
CanRequestVideoUnlessBusy(s) == s.status # "generating_video"

\* SceneCard.tsx:314-328: a control that calls handleVideoGenerateClick is
\* rendered.
CanRequestVideo(s) == s.status = "error" \/ s.status = "idle"

\* Whether the shot after `id` in `seq` holds a start frame.
NextIsSet(seq, id) ==
    LET idx == FindIndex(seq, id)
    IN idx # 0 /\ idx < Len(seq) /\ seq[idx + 1].generatedImage # Undefined

--------------------------------------------------------------------------
\* No service call under way.
ServiceIdle == svc = [pc |-> "idle"]

OrchInit ==
    /\ mode = "storyboard"
    /\ scenes = <<>>
    /\ tasks = EmptyBag
    /\ last = Outcome("init")
    /\ ServiceIdle

\* handleModeChange (part_000:69-75)
HandleModeChange(newMode) ==
    /\ mode' = newMode
    /\ scenes' = <<>>
    /\ tasks' = Outlive(tasks)
    /\ last' = [Outcome("modeChange") EXCEPT !.id = StaleId]
    /\ UNCHANGED <<call, svc>>

\* setScenes(data.map(...)) of handleAnalyzeScript (part_000:93-101) and
\* handleConfirmSplitAndGenerate (122-130): n fresh idle shots replace the
\* sequence.
SetScenesFromScript(n) ==
    /\ scenes' = [k \in 1..n |-> NewScene(k)]
    /\ tasks' = Outlive(tasks)
    /\ last' = [Outcome("construct") EXCEPT !.id = StaleId]
    /\ UNCHANGED <<mode, call, svc>>

\* The "add" button (part_000:318-322), shown only when scenes.length > 0.
AddScene ==
    /\ Len(scenes) > 0
    /\ Len(scenes) < MaxScenes
    /\ scenes' = Append(scenes, NewScene(Len(scenes) + 1))
    /\ last' = [Outcome("add") EXCEPT !.id = StaleId]
    /\ UNCHANGED <<mode, tasks, call, svc>>

(***************************************************************************)
(* handleGenerateFirstFrame (part_000:138-166)                             *)
(***************************************************************************)
RequestFirstFrame(k) ==
    /\ k \in 1..Len(scenes)
    /\ CanRequestFirstFrame(mode, scenes[k])
    /\ BagCardinality(tasks) < MaxTasks
    /\ scenes' = StartImage(scenes, scenes[k].id)
    /\ tasks' = Start(ImageTask(scenes[k].id))
    /\ last' = [Outcome("requestFirstFrame") EXCEPT !.id = scenes[k].id]
    /\ UNCHANGED <<mode, call, svc>>

ImageSucceeds(t, imageUrl) ==
    /\ t.pc = "image"
    /\ scenes' = ImageCompleted(scenes, t.id, imageUrl)
    /\ tasks' = Finish(t)
    /\ last' = [Outcome("imageSucceeds") EXCEPT !.id = t.id,
                    !.replaced = \E k \in 1..Len(scenes) :
                        /\ scenes[k].id = t.id
                        /\ scenes[k].generatedImage \notin {Undefined, imageUrl},
                    !.frameWrittenInFlight =
                        /\ last.op = "extractSucceeds"
                        /\ last.wrote
                        /\ FindIndex(scenes, t.id) = FindIndex(scenes, last.id) + 1]
    /\ UNCHANGED <<mode, call, svc>>

ImageFails(t, message) ==
    /\ t.pc = "image"
    /\ scenes' = ImageFailed(scenes, t.id, message)
    /\ tasks' = Finish(t)
    /\ last' = [Outcome("imageFails") EXCEPT !.id = t.id, !.message = message]
    /\ UNCHANGED <<mode, call, svc>>

(***************************************************************************)
(* handleGenerateVideo (part_000:191-230)                                  *)
(***************************************************************************)
RequestVideo(k) ==
    /\ k \in 1..Len(scenes)
    /\ CanRequestVideo(scenes[k])
    /\ BagCardinality(tasks) < MaxTasks
    /\ scenes' = StartVideo(scenes, scenes[k].id)
    /\ tasks' = Start(VideoTask(mode, scenes, scenes[k].id))
    /\ last' = [Outcome("requestVideo") EXCEPT !.id = scenes[k].id]
    /\ UNCHANGED <<mode, call, svc>>

\* generateVideoForScene resolved: part_000:202-212, up to the next await.
VideoSucceeds(t, videoUrl) ==
    /\ t.pc = "video"
    /\ scenes' = VideoCompleted(scenes, t.id, videoUrl)
    /\ tasks' = IF ShouldExtract(t.closure)
                THEN Replace(t, [t EXCEPT !.pc = "settle",
                                          !.closure = NoClosure,
                                          !.videoUrl = videoUrl])
                ELSE Finish(t)
    /\ last' = [Outcome(IF ShouldExtract(t.closure) THEN "videoSucceeds"
                        ELSE "videoSucceedsNoContinuity") EXCEPT !.id = t.id,
                    !.nextSetAtCompletion = NextIsSet(scenes, t.id)]
    /\ UNCHANGED <<mode, call, svc>>

\* generateVideoForScene rejected: part_000:227-229.
VideoFails(t, failure) ==
    /\ t.pc = "video"
    /\ scenes' = VideoFailed(scenes, t.id, failure[3])
    /\ tasks' = Finish(t)
    /\ last' = [Outcome("videoFails") EXCEPT !.id = t.id,
                    !.error = Err(failure[1], failure[2]),
                    !.message = failure[3],
                    !.invocations = 1]
    /\ UNCHANGED <<mode, call, svc>>

\* The 500ms timer of part_000:212 fired; extractLastFrameFromVideo starts.
SettleElapsed(t) ==
    /\ t.pc = "settle"
    /\ tasks' = Replace(t, [t EXCEPT !.pc = "extract"])
    /\ last' = [Outcome("settleElapsed") EXCEPT !.id = t.id]
    /\ UNCHANGED <<mode, scenes, call, svc>>

\* extractLastFrameFromVideo resolved: part_000:213-223.
ExtractSucceeds(t) ==
    /\ t.pc = "extract"
    /\ scenes' = ContinuityWrite(scenes, t.id, LastFrameOf(t.videoUrl))
    /\ tasks' = Finish(t)
    /\ last' = [Outcome("extractSucceeds") EXCEPT !.id = t.id,
                    !.nextSetAtWrite = NextIsSet(scenes, t.id),
                    !.wrote = (scenes' # scenes)]
    /\ UNCHANGED <<mode, call, svc>>

\* extractLastFrameFromVideo rejected (timeout, media or canvas error):
\* part_000:225.
ExtractFails(t) ==
    /\ t.pc = "extract"
    /\ scenes' = ExtractionFailed(scenes, t.id)
    /\ tasks' = Finish(t)
    /\ last' = [Outcome("extractFails") EXCEPT !.id = t.id]
    /\ UNCHANGED <<mode, call, svc>>

\* A step of a handler whose shot was replaced: one of the setScenes calls
\* of part_000:162, 164, 202, 214-223, 228 (or the catch of 225), after
\* which the handler goes on or returns.
StaleSettles(t, imageUrl, videoUrl, message, done) ==
    /\ t.pc = "stale"
    /\ scenes' \in {ImageCompleted(scenes, t.id, imageUrl),
                    ImageFailed(scenes, t.id, message),
                    VideoCompleted(scenes, t.id, videoUrl),
                    VideoFailed(scenes, t.id, message),
                    ContinuityWrite(scenes, t.id, LastFrameOf(videoUrl)),
                    ExtractionFailed(scenes, t.id)}
    /\ tasks' = IF done THEN Finish(t) ELSE tasks
    /\ last' = Outcome("staleSettles")
    /\ UNCHANGED <<mode, call, svc>>

--------------------------------------------------------------------------
(***************************************************************************)
(* withRetry (gemini.ts:46-63)                                             *)
(***************************************************************************)
FnErrors ==
    {Err(503, ""), Err(0, "UNAVAILABLE"), Err(500, ""), Err(0, "INTERNAL"),
     Err(429, ""), Err(0, "RESOURCE_EXHAUSTED"), Err(429, "RESOURCE_EXHAUSTED"),
     Err(400, "INVALID_ARGUMENT"), Err(0, "")}

\* What fn resolves with.
Ok(value) == [ok |-> TRUE, value |-> value, code |-> 0, status |-> ""]

FnValues == {Ok("r1"), Ok("r2")}

FnOutcomes == FnValues \cup FnErrors

\* baseDelay: the default of gemini.ts:46 and another value.
BaseDelays == {2000, 1000}

\* Variants of IsRetryable and ShouldRetry.
IsRetryableNo500(e) ==
    \/ e.code = 503 \/ e.status = "UNAVAILABLE"
    \/ e.status = "INTERNAL"
    \/ e.code = 429 \/ e.status = "RESOURCE_EXHAUSTED"

IsRetryableUnlessBadRequest(e) == e.code # 400

\* gemini.ts:53
IsRetryable(e) ==
    \/ e.code = 503 \/ e.status = "UNAVAILABLE"
    \/ e.code = 500 \/ e.status = "INTERNAL"
    \/ e.code = 429 \/ e.status = "RESOURCE_EXHAUSTED"

ShouldRetryOnLast(e, i, maxRetries) == IsRetryable(e) /\ i < maxRetries

\* gemini.ts:54
ShouldRetry(e, i, maxRetries) == IsRetryable(e) /\ i < maxRetries - 1

\* gemini.ts:55
Delay(e, i, baseDelay) == (IF e.code = 429 THEN 5000 ELSE baseDelay) * 2^i

\* The state of withRetry(fn, maxRetries, baseDelay) on entry; fn's k-th
\* invocation ends as script[k].
NewCall(script, maxRetries, baseDelay) ==
    [pc |-> "attempt", script |-> script, maxRetries |-> maxRetries,
     baseDelay |-> baseDelay, i |-> 0, lastError |-> NoError,
     invocations |-> 0, waits |-> <<>>, result |-> Undefined,
     thrown |-> NoError]

\* How the invocation of fn that is under way ends.
Outcome_fn(c) ==
    IF c.invocations + 1 <= Len(c.script) THEN c.script[c.invocations + 1]
    ELSE c.script[Len(c.script)]

RetryIdle == call = [pc |-> "idle"]

OrchIdle == UNCHANGED <<mode, scenes, tasks, last, svc>>

RetryInit ==
    \E maxRetries \in 1..MaxN, baseDelay \in BaseDelays :
        \E script \in [1..maxRetries -> FnOutcomes] :
            call = NewCall(script, maxRetries, baseDelay)

\* gemini.ts:50, fn resolved: return await fn()
AttemptResolves ==
    /\ call.pc = "attempt"
    /\ Outcome_fn(call).ok
    /\ call' = [call EXCEPT !.pc = "resolved",
                            !.invocations = @ + 1,
                            !.result = Outcome_fn(call).value]
    /\ OrchIdle

\* gemini.ts:51-57, fn rejected and the error is retried: the timer starts.
AttemptFailsAndWaits ==
    /\ call.pc = "attempt"
    /\ ~Outcome_fn(call).ok
    /\ ShouldRetry(Outcome_fn(call), call.i, call.maxRetries)
    /\ call' = [call EXCEPT !.pc = "wait",
                            !.invocations = @ + 1,
                            !.lastError = Outcome_fn(call),
                            !.waits = Append(@, Delay(Outcome_fn(call), call.i,
                                                      call.baseDelay))]
    /\ OrchIdle

\* gemini.ts:51-59, fn rejected and the error is thrown.
AttemptFailsAndThrows ==
    /\ call.pc = "attempt"
    /\ ~Outcome_fn(call).ok
    /\ ~ShouldRetry(Outcome_fn(call), call.i, call.maxRetries)
    /\ call' = [call EXCEPT !.pc = "rejected",
                            !.invocations = @ + 1,
                            !.lastError = Outcome_fn(call),
                            !.thrown = Outcome_fn(call)]
    /\ OrchIdle

\* gemini.ts:56-57 and 48: the timer fired; `continue`, i++, and the loop
\* test; gemini.ts:62 when the loop is left.
WaitElapsed ==
    /\ call.pc = "wait"
    /\ call' = IF call.i + 1 < call.maxRetries
               THEN [call EXCEPT !.pc = "attempt", !.i = @ + 1]
               ELSE [call EXCEPT !.pc = "rejected", !.i = @ + 1,
                                 !.thrown = call.lastError]
    /\ OrchIdle

RetryNext ==
    \/ AttemptResolves
    \/ AttemptFailsAndWaits
    \/ AttemptFailsAndThrows
    \/ WaitElapsed

RetryStart == OrchInit /\ RetryInit

RetrySpec == RetryStart /\ [][RetryNext]_vars

Init == OrchInit /\ RetryIdle

Next ==
    \/ \E m \in Modes : HandleModeChange(m)
    \/ \E n \in 0..MaxScenes : SetScenesFromScript(n)
    \/ AddScene
    \/ \E k \in 1..MaxScenes : RequestFirstFrame(k)
    \/ \E t \in Running, imageUrl \in GeneratedImages : ImageSucceeds(t, imageUrl)
    \/ \E t \in Running, message \in Messages : ImageFails(t, message)
    \/ \E k \in 1..MaxScenes : RequestVideo(k)
    \/ \E t \in Running, videoUrl \in VideoUrls : VideoSucceeds(t, videoUrl)
    \/ \E t \in Running : VideoFails(t, DownloadFailure)
    \/ \E t \in Running : SettleElapsed(t)
    \/ \E t \in Running : ExtractSucceeds(t)
    \/ \E t \in Running : ExtractFails(t)
    \/ \E t \in Running, imageUrl \in GeneratedImages, videoUrl \in VideoUrls,
          message \in Messages, done \in BOOLEAN :
            StaleSettles(t, imageUrl, videoUrl, message, done)

Spec == Init /\ [][Next]_vars

(***************************************************************************)
(* The handlers on one shot sequence: the state after a script was turned  *)
(* into n shots in either mode, no handler in flight, and from there every *)
(* operation that keeps the sequence, with every kind of video failure.    *)
(***************************************************************************)
RunInit ==
    /\ mode \in Modes
    /\ \E n \in 1..MaxScenes : scenes = [k \in 1..n |-> NewScene(k)]
    /\ tasks = EmptyBag
    /\ last = Outcome("construct")
    /\ RetryIdle
    /\ ServiceIdle

RunNext ==
    \/ AddScene
    \/ \E k \in 1..MaxScenes : RequestFirstFrame(k)
    \/ \E t \in Running, imageUrl \in GeneratedImages : ImageSucceeds(t, imageUrl)
    \/ \E t \in Running, message \in Messages : ImageFails(t, message)
    \/ \E k \in 1..MaxScenes : RequestVideo(k)
    \/ \E t \in Running, videoUrl \in VideoUrls : VideoSucceeds(t, videoUrl)
    \/ \E t \in Running, failure \in VideoFailures : VideoFails(t, failure)
    \/ \E t \in Running : SettleElapsed(t)
    \/ \E t \in Running : ExtractSucceeds(t)
    \/ \E t \in Running : ExtractFails(t)

RunSpec == RunInit /\ [][RunNext]_vars

--------------------------------------------------------------------------
(***************************************************************************)
(* The script services of gemini.ts.  A call is given its inputs and the   *)
(* text the model answered, as JSON.parse reads it:                        *)
(*   kind "unparsable"  JSON.parse throws                                  *)
(*   kind "empty"       response.text is empty: the default text is read   *)
(*   kind "null"        the text is `null`                                 *)
(*   kind "array"       an array, its elements in `items`                  *)
(*   kind "object"      an object; `segmentsKind` says whether its         *)
(*                      `segments` is missing, an array or something else  *)
(***************************************************************************)
\* Longest segment list given to, and longest array answered to,
\* generatePromptsForContinuousSegments.
MaxPrompts == 2

\* Longest `segments` array answered to splitScriptSmartly.
MaxSplit == 5

\* SHOT_DURATIONS (part_000:48), the values shotDuration takes.
ShotDurations == {5, 8, 10}

TotalSeconds == 24

\* Script segments.
Segments == {"a", "b"}

\* The text "生成失败" of gemini.ts:356-357.
Placeholder == "generation failed"

\* A prompt in an answered entry: absent, empty, or a text.
PromptValues == {Undefined, "", "p1"}

\* An element of the answered array: null, or an object.
PromptEntries ==
    [isNull : {FALSE}, visual_prompt : PromptValues, image_prompt : PromptValues]
        \cup {[isNull |-> TRUE, visual_prompt |-> Undefined,
               image_prompt |-> Undefined]}

SeqsUpTo(S, n) == UNION {[1..m -> S] : m \in 0..n}

Response(kind, items, segmentsKind, segments) ==
    [kind |-> kind, items |-> items, segmentsKind |-> segmentsKind,
     segments |-> segments]

\* What the model may answer to generatePromptsForContinuousSegments.
PromptResponses ==
    {Response(kind, <<>>, "missing", <<>>) :
        kind \in {"unparsable", "empty", "null", "object"}}
    \cup {Response("array", items, "missing", <<>>) :
            items \in SeqsUpTo(PromptEntries, MaxPrompts)}

\* What the model may answer to splitScriptSmartly.
SplitResponses ==
    {Response(kind, <<>>, "missing", <<>>) :
        kind \in {"unparsable", "empty", "null", "array"}}
    \cup {Response("object", <<>>, segmentsKind, <<>>) :
            segmentsKind \in {"missing", "other"}}
    \cup {Response("object", <<>>, "array", segments) :
            segments \in SeqsUpTo(Segments, MaxSplit)}

\* An element of the array answered to generateScenesFromScript.
StoryboardEntries ==
    [script_segment : Segments, visual_prompt : {"p1"},
     image_prompt : {"p1", "p2"}]

\* What the model may answer to generateScenesFromScript.
StoryboardResponses ==
    {Response(kind, <<>>, "missing", <<>>) :
        kind \in {"unparsable", "empty", "null", "object"}}
    \cup {Response("array", items, "missing", <<>>) :
            items \in SeqsUpTo(StoryboardEntries, MaxPrompts)}

Returned(value) == [ok |-> TRUE, value |-> value]

\* The call rejects with an Error.
Thrown == [ok |-> FALSE, value |-> <<>>]

\* JavaScript `a || b` on an optional string.
OrElse(a, b) == IF a = Undefined \/ a = "" THEN b ELSE a

\* results[index]?.visual_prompt and results[index]?.image_prompt
\* (gemini.ts:356-357); index is 0-based in the source, j = index + 1.
VisualPromptAt(results, j) ==
    IF j > Len(results) \/ results[j].isNull THEN Undefined
    ELSE results[j].visual_prompt

ImagePromptAt(results, j) ==
    IF j > Len(results) \/ results[j].isNull THEN Undefined
    ELSE results[j].image_prompt

\* Variant of PromptsResult that maps over the answered entries.
PromptsResultByResponse(segments, response) ==
    IF response.kind = "unparsable" THEN Thrown
    ELSE Returned([j \in 1..Len(response.items) |->
                    [script_segment |->
                        IF j <= Len(segments) THEN segments[j] ELSE Undefined,
                     visual_prompt |->
                        OrElse(VisualPromptAt(response.items, j), Placeholder),
                     image_prompt |->
                        OrElse(ImagePromptAt(response.items, j), Placeholder)]])

\* gemini.ts:351-361: what the function passed to withRetry returns or
\* throws.  Reading results[index] of null throws a TypeError inside the
\* try; an object or an empty text gives no entry at any index.
PromptsResult(segments, response) ==
    IF \/ response.kind = "unparsable"
       \/ response.kind = "null" /\ Len(segments) > 0
    THEN Thrown
    ELSE LET results == IF response.kind = "array" THEN response.items
                        ELSE <<>>
         IN Returned([j \in 1..Len(segments) |->
                        [script_segment |-> segments[j],
                         visual_prompt |->
                            OrElse(VisualPromptAt(results, j), Placeholder),
                         image_prompt |->
                            OrElse(ImagePromptAt(results, j), Placeholder)]])

\* gemini.ts:219
MaxSegmentsFor(shotDuration) == TotalSeconds \div shotDuration

\* Array.prototype.slice(0, n) for n >= 0.
Slice(seq, n) == SubSeq(seq, 1, IF Len(seq) < n THEN Len(seq) ELSE n)

\* Variant of SplitResult that returns the answered list whole.
SplitResultUncut(script, shotDuration, response) ==
    IF response.kind = "object" /\ response.segmentsKind = "array"
       /\ Len(response.segments) > 0
    THEN Returned(response.segments)
    ELSE Returned(<<script>>)

\* gemini.ts:254-262: what the function passed to withRetry returns.
SplitResult(script, shotDuration, response) ==
    IF response.kind = "object" /\ response.segmentsKind = "array"
       /\ Len(response.segments) > 0
    THEN Returned(Slice(response.segments, MaxSegmentsFor(shotDuration)))
    ELSE Returned(<<script>>)

\* gemini.ts:410: JSON.parse(response.text || "[]"), returned as it is; of
\* a value that is no array the elements are none.
StoryboardResult(response) ==
    IF response.kind = "unparsable" THEN Thrown
    ELSE Returned(IF response.kind = "array" THEN response.items ELSE <<>>)

\* data.map is defined: data is an array (part_000:93, 122).  The result of
\* generatePromptsForContinuousSegments always is.
IsArray(c) ==
    c.fn = "storyboard" => c.response.kind \in {"array", "empty"}

\* The shot made of item k of data (part_000:93-101, 122-130).
ShotFrom(item, k) ==
    NewScene(k) @@ [scriptSegment |-> item.script_segment,
                    visualPrompt |-> item.visual_prompt,
                    imagePrompt |-> item.image_prompt]

HasPrompts(item) ==
    item.visual_prompt # Placeholder /\ item.image_prompt # Placeholder

\* Variant of ShotsFrom that skips the items without prompts.
ShotsFromSupplied(data) ==
    [k \in 1..Len(SelectSeq(data, HasPrompts)) |->
        ShotFrom(SelectSeq(data, HasPrompts)[k], k)]

\* data.map(item => ({...})) of part_000:93-101 and 122-130.
ShotsFrom(data) == [k \in 1..Len(data) |-> ShotFrom(data[k], k)]

ServiceCall(fn, segments, script, shotDuration, response) ==
    [pc |-> "called", fn |-> fn, segments |-> segments, script |-> script,
     shotDuration |-> shotDuration, response |-> response,
     result |-> Thrown]

ServiceInit ==
    /\ mode = "single"
    /\ scenes = <<>>
    /\ tasks = EmptyBag
    /\ last = Outcome("init")
    /\ RetryIdle
    /\ \/ \E segments \in SeqsUpTo(Segments, MaxPrompts),
             response \in PromptResponses, shotDuration \in ShotDurations :
             svc = ServiceCall("prompts", segments, "", shotDuration, response)
       \/ \E script \in Segments, shotDuration \in ShotDurations,
             response \in SplitResponses :
             svc = ServiceCall("split", <<>>, script, shotDuration, response)
       \/ \E script \in Segments, response \in StoryboardResponses :
             svc = ServiceCall("storyboard", <<>>, script, 0, response)

\* generatePromptsForContinuousSegments settles.
PromptsSettles ==
    /\ svc.pc = "called"
    /\ svc.fn = "prompts"
    /\ svc' = [svc EXCEPT !.pc = "settled",
                          !.result = PromptsResult(svc.segments, svc.response)]
    /\ UNCHANGED <<mode, scenes, tasks, last, call>>

\* splitScriptSmartly settles.
SplitSettles ==
    /\ svc.pc = "called"
    /\ svc.fn = "split"
    /\ svc' = [svc EXCEPT !.pc = "settled",
                          !.result = SplitResult(svc.script, svc.shotDuration,
                                                 svc.response)]
    /\ UNCHANGED <<mode, scenes, tasks, last, call>>

\* generateScenesFromScript settles.
StoryboardSettles ==
    /\ svc.pc = "called"
    /\ svc.fn = "storyboard"
    /\ svc' = [svc EXCEPT !.pc = "settled",
                          !.result = StoryboardResult(svc.response)]
    /\ UNCHANGED <<mode, scenes, tasks, last, call>>

\* handleAnalyzeScript (part_000:91-101) and handleConfirmSplitAndGenerate
\* (121-130) after their await: the data returned becomes the sequence.
ShotsConstructed ==
    /\ svc.pc = "settled"
    /\ svc.fn \in {"storyboard", "prompts"}
    /\ svc.result.ok
    /\ IsArray(svc)
    /\ scenes' = ShotsFrom(svc.result.value)
    /\ svc' = [svc EXCEPT !.pc = "constructed"]
    /\ UNCHANGED <<mode, tasks, last, call>>

\* The catch of part_000:102 and 131: the service threw, or data.map did;
\* an alert, and the sequence stays.
ConstructionFails ==
    /\ svc.pc = "settled"
    /\ svc.fn \in {"storyboard", "prompts"}
    /\ ~(svc.result.ok /\ IsArray(svc))
    /\ svc' = [svc EXCEPT !.pc = "alerted"]
    /\ UNCHANGED <<mode, scenes, tasks, last, call>>

ServiceNext ==
    \/ PromptsSettles
    \/ SplitSettles
    \/ StoryboardSettles
    \/ ShotsConstructed
    \/ ConstructionFails

ServiceSpec == ServiceInit /\ [][ServiceNext]_vars

--------------------------------------------------------------------------
(***************************************************************************)
(* compressImage (gemini.ts:13-44).  A call is given the data URL, the     *)
(* size the browser decodes it to or the fact that it does not decode, and *)
(* whether the canvas gives a 2d context.                                  *)
(***************************************************************************)
\* Largest side of the small source images.
MaxSide == 8

\* maxWidth when compressImage is given none (gemini.ts:13).
DefaultMaxWidth == 1024

\* Sides of source images: the small ones, and some around the default
\* bound.
Sides == 1..MaxSide \cup {1023, 1024, 1025, 2048}

MaxWidths == {4, DefaultMaxWidth}

\* A data URL is `header,payload`; a text without comma has no header.
PngHeader == "data:image/png;base64"

JpegHeader == "data:image/jpeg;base64"

DataUrls ==
    [header : {"", "data:", PngHeader, JpegHeader}, payload : {"", "QUJD"}]

\* The text of a data URL.
Text(u) == IF u.header = "" THEN u.payload ELSE u.header \o "," \o u.payload

\* dataUrl.split(',')[1]
AfterComma(u) == IF u.header = "" THEN Undefined ELSE u.payload

\* dataUrl.includes('image/png')
NamesPng(u) == u.header = PngHeader

\* gemini.ts:36, 40: dataUrl.split(',')[1] || dataUrl
FallbackData(u) == OrElse(AfterComma(u), Text(u))

\* gemini.ts:36, 40
FallbackMime(u) == IF NamesPng(u) THEN "image/png" ELSE "image/jpeg"

\* Variant of Round: the integer part.
RoundDown(p, q) == p \div q

\* Math.round(p / q) for p >= 0 and q > 0: halves go up.
Round(p, q) == (2 * p + q) \div (2 * q)

\* gemini.ts:23: Math.min(maxWidth / width, maxWidth / height), as the
\* fraction <<numerator, denominator>>.
Ratio(width, height, maxWidth) ==
    IF maxWidth * height <= maxWidth * width THEN <<maxWidth, width>>
    ELSE <<maxWidth, height>>

\* gemini.ts:20-26: the canvas size <<width, height>>.
CanvasSize(width, height, maxWidth) ==
    IF width > maxWidth \/ height > maxWidth
    THEN LET ratio == Ratio(width, height, maxWidth)
         IN <<Round(width * ratio[1], ratio[2]),
              Round(height * ratio[1], ratio[2])>>
    ELSE <<width, height>>

\* gemini.ts:33-34, canvas.toDataURL(..).split(',')[1]: the encoded
\* bytes; of a canvas without area the data URL is "data:," and the part
\* is empty.
JpegOf(size) == IF size[1] = 0 \/ size[2] = 0 THEN "" ELSE "jpeg bytes"

Unsettled == [data |-> Undefined, mimeType |-> Undefined, size |-> <<0, 0>>]

CompressCall(dataUrl, decodes, width, height, maxWidth, hasContext) ==
    [pc |-> "called", fn |-> "compress", dataUrl |-> dataUrl,
     decodes |-> decodes, width |-> width, height |-> height,
     maxWidth |-> maxWidth, hasContext |-> hasContext,
     resolved |-> 0, rejected |-> 0, result |-> Unsettled]

CompressInit ==
    /\ mode = "storyboard"
    /\ scenes = <<>>
    /\ tasks = EmptyBag
    /\ last = Outcome("init")
    /\ RetryIdle
    /\ \/ \E dataUrl \in DataUrls, width \in Sides, height \in Sides,
             maxWidth \in MaxWidths, hasContext \in BOOLEAN :
             svc = CompressCall(dataUrl, TRUE, width, height, maxWidth,
                                hasContext)
       \/ \E dataUrl \in DataUrls, maxWidth \in MaxWidths :
             svc = CompressCall(dataUrl, FALSE, 0, 0, maxWidth, TRUE)

\* gemini.ts:14: if (!dataUrl) return { data: '', mimeType: '' }
CompressNothing ==
    /\ svc.pc = "called"
    /\ Text(svc.dataUrl) = ""
    /\ svc' = [svc EXCEPT !.pc = "settled", !.resolved = @ + 1,
                          !.result = [data |-> "", mimeType |-> "",
                                      size |-> <<0, 0>>]]
    /\ UNCHANGED <<mode, scenes, tasks, last, call>>

\* img.onload with a 2d context (gemini.ts:19-34).
CompressDraws ==
    /\ svc.pc = "called"
    /\ Text(svc.dataUrl) # ""
    /\ svc.decodes
    /\ svc.hasContext
    /\ LET size == CanvasSize(svc.width, svc.height, svc.maxWidth)
       IN svc' = [svc EXCEPT !.pc = "settled", !.resolved = @ + 1,
                             !.result = [data |-> JpegOf(size),
                                         mimeType |-> "image/jpeg",
                                         size |-> size]]
    /\ UNCHANGED <<mode, scenes, tasks, last, call>>

\* img.onload without 2d context (gemini.ts:35-37) and img.onerror (39-41).
CompressFallsBack ==
    /\ svc.pc = "called"
    /\ Text(svc.dataUrl) # ""
    /\ ~(svc.decodes /\ svc.hasContext)
    /\ svc' = [svc EXCEPT !.pc = "settled", !.resolved = @ + 1,
                          !.result = [data |-> FallbackData(svc.dataUrl),
                                      mimeType |-> FallbackMime(svc.dataUrl),
                                      size |-> <<0, 0>>]]
    /\ UNCHANGED <<mode, scenes, tasks, last, call>>

CompressNext == CompressNothing \/ CompressDraws \/ CompressFallsBack

CompressSpec == CompressInit /\ [][CompressNext]_vars

--------------------------------------------------------------------------
(***************************************************************************)
(* extractLastFrameFromVideo (part_000:168-189): a promise around a video  *)
(* element, a 10 s timer and the element's events.  pc is the position of  *)
(* the element: loading its metadata, seeking to the last frame, waiting   *)
(* for canplay, captured, or failed with a media error.                    *)
(***************************************************************************)
\* part_000:172: setTimeout(.., 10000)
ExtractTimeout == 10000

\* The clock advances in steps of ExtractTimeout / TicksPerTimeout ms.
TicksPerTimeout == 4

TickMs == ExtractTimeout \div TicksPerTimeout

\* The clock stops two steps after the deadline of the timer.
MaxClock == TicksPerTimeout * TickMs + 2 * TickMs

\* The deadline of the timer on the clock.
Deadline == TicksPerTimeout * TickMs

\* part_000:172: new Error("提取超时")
TimeoutError == "extraction timed out"

VideoError == "Video error"

ContextError == "Context error"

DrawError == "thrown by drawImage or toDataURL"

Frame == "frame"

\* What capture meets: a 2d context that draws, no context, or a context
\* whose drawImage or toDataURL throws.
Canvases == {"draws", "noContext", "throws"}

Pending == [state |-> "pending", value |-> Undefined, at |-> 0]

\* Variant of Settle: the last resolve or reject decides.
SettleLast(promise, state, value, now) ==
    [state |-> state, value |-> value, at |-> now]

\* resolve and reject of a promise: the first one decides, later ones do
\* nothing.
Settle(promise, state, value, now) ==
    IF promise.state = "pending"
    THEN [state |-> state, value |-> value, at |-> now]
    ELSE promise

\* clearTimeout: a timer that has fired stays fired.
ClearTimeout(timer) == IF timer = "armed" THEN "cleared" ELSE timer

ExtractCall(canvas) ==
    [pc |-> "loading", fn |-> "extract", canvas |-> canvas, clock |-> 0,
     timeout |-> "armed", promise |-> Pending, settles |-> 0, src |-> TRUE]

ExtractInit ==
    /\ mode = "single"
    /\ scenes = <<>>
    /\ tasks = EmptyBag
    /\ last = Outcome("init")
    /\ RetryIdle
    /\ \E canvas \in Canvases : svc = ExtractCall(canvas)

\* Time passes; an armed timer fires before time passes its deadline.
ClockTicks ==
    /\ svc.clock + TickMs <= MaxClock
    /\ svc.timeout = "armed" => svc.clock + TickMs <= Deadline
    /\ svc' = [svc EXCEPT !.clock = @ + TickMs]
    /\ UNCHANGED <<mode, scenes, tasks, last, call>>

\* part_000:172: () => reject(new Error("..."))
TimeoutFires ==
    /\ svc.timeout = "armed"
    /\ svc.clock = Deadline
    /\ svc' = [svc EXCEPT !.timeout = "fired",
                          !.promise = Settle(@, "rejected", TimeoutError,
                                             svc.clock),
                          !.settles = @ + 1]
    /\ UNCHANGED <<mode, scenes, tasks, last, call>>

\* part_000:185: video.onloadedmetadata sets currentTime
LoadedMetadata ==
    /\ svc.pc = "loading"
    /\ svc' = [svc EXCEPT !.pc = "seeking"]
    /\ UNCHANGED <<mode, scenes, tasks, last, call>>

\* part_000:173-184: capture
Capture(s) ==
    [s EXCEPT !.pc = "captured",
              !.timeout = ClearTimeout(@),
              !.promise =
                  IF s.canvas = "draws"
                  THEN Settle(@, "resolved", Frame, s.clock)
                  ELSE IF s.canvas = "noContext"
                  THEN Settle(@, "rejected", ContextError, s.clock)
                  ELSE Settle(@, "rejected", DrawError, s.clock),
              !.settles = @ + 1,
              !.src = FALSE]

\* part_000:186: video.onseeked with readyState >= 2, or not yet
Seeked(ready) ==
    /\ svc.pc = "seeking"
    /\ svc' = IF ready THEN Capture(svc)
              ELSE [svc EXCEPT !.pc = "awaitingCanPlay"]
    /\ UNCHANGED <<mode, scenes, tasks, last, call>>

\* part_000:186: video.oncanplay = capture
CanPlay ==
    /\ svc.pc = "awaitingCanPlay"
    /\ svc' = Capture(svc)
    /\ UNCHANGED <<mode, scenes, tasks, last, call>>

\* part_000:187: video.onerror
MediaError ==
    /\ svc.pc \in {"loading", "seeking", "awaitingCanPlay"}
    /\ svc' = [svc EXCEPT !.pc = "failed",
                          !.timeout = ClearTimeout(@),
                          !.promise = Settle(@, "rejected", VideoError,
                                             svc.clock),
                          !.settles = @ + 1]
    /\ UNCHANGED <<mode, scenes, tasks, last, call>>

ExtractNext ==
    \/ ClockTicks
    \/ TimeoutFires
    \/ LoadedMetadata
    \/ \E ready \in BOOLEAN : Seeked(ready)
    \/ CanPlay
    \/ MediaError

ExtractSpec == ExtractInit /\ [][ExtractNext]_vars

--------------------------------------------------------------------------
(***************************************************************************)
(* Properties of the shot pipeline, checked under Spec.  A step is read    *)
(* through `last` after it: the operation, and the shot it was requested   *)
(* for.  Shots keep their place in the sequence unless it is replaced.     *)
(***************************************************************************)
Replaced == last'.op \in {"modeChange", "construct"}

Positions == 1..Len(scenes)

StatusesValid ==
    \A k \in Positions :
        scenes[k].status \in Statuses /\ scenes[k].imageStatus \in ImageStatuses

\* The changes the specification allows.
SpecVideoChanges ==
    {<<"idle", "generating_video">>, <<"generating_video", "completed">>,
     <<"generating_video", "error">>}

SpecImageChanges ==
    {<<"idle", "generating">>, <<"generating", "completed">>,
     <<"generating", "error">>}

\* C1, as claimed: both fields hold one of the four values and change only
\* by idle -> generating, generating -> completed, generating -> error.
C1_AsClaimed ==
    /\ []StatusesValid
    /\ [][~Replaced =>
            \A k \in Positions :
                /\ \/ scenes'[k].status = scenes[k].status
                   \/ <<scenes[k].status, scenes'[k].status>> \in SpecVideoChanges
                /\ \/ scenes'[k].imageStatus = scenes[k].imageStatus
                   \/ <<scenes[k].imageStatus, scenes'[k].imageStatus>>
                        \in SpecImageChanges]_vars

\* The changes of the code: a request is also made from error (retry) and,
\* for the image, from completed (regenerate); a continuity write completes
\* an image that is idle, generating or in error; and the end of an older
\* first-frame request still in flight turns completed into error or error
\* into completed.
VideoChanges == SpecVideoChanges \cup {<<"error", "generating_video">>}

ImageChanges ==
    SpecImageChanges \cup
        {<<"error", "generating">>, <<"completed", "generating">>,
         <<"idle", "completed">>, <<"error", "completed">>,
         <<"completed", "error">>}

\* C1, amended: both fields always hold one of the four values; status
\* changes only by idle -> generating_video, error -> generating_video,
\* generating_video -> completed, generating_video -> error; imageStatus
\* changes only by one of ImageChanges; neither field returns to idle.
C1_StatusChanges ==
    /\ []StatusesValid
    /\ [][~Replaced =>
            \A k \in Positions :
                /\ \/ scenes'[k].status = scenes[k].status
                   \/ <<scenes[k].status, scenes'[k].status>> \in VideoChanges
                /\ \/ scenes'[k].imageStatus = scenes[k].imageStatus
                   \/ <<scenes[k].imageStatus, scenes'[k].imageStatus>>
                        \in ImageChanges]_vars

\* C1 witness: a video request made again after an error has completed, on
\* a shot whose image went from error to completed.
C1_Witness ==
    \E k \in Positions :
        /\ scenes[k].status = "completed"
        /\ scenes[k].imageStatus = "completed"
        /\ scenes[k].imageErrorMessage # Undefined

\* The steps of handleGenerateVideo from the resolution of the video on.
ContinuityOps ==
    {"videoSucceeds", "videoSucceedsNoContinuity", "settleElapsed",
     "extractSucceeds", "extractFails"}

\* C2: in continuous mode, when the shot after the one whose video completed
\* already holds a start frame, no step of the continuity step changes that
\* shot's generatedImage or imageStatus.
C2_SetSuccessorUnchanged ==
    [][(last'.op \in ContinuityOps /\ mode = "single") =>
          \A k \in Positions :
              ( /\ scenes[k].id = last'.id
                /\ k < Len(scenes)
                /\ scenes[k + 1].generatedImage # Undefined ) =>
                  /\ scenes'[k + 1].generatedImage = scenes[k + 1].generatedImage
                  /\ scenes'[k + 1].imageStatus = scenes[k + 1].imageStatus]_vars

\* C2 witness: a video completed in continuous mode for a shot whose
\* successor held a start frame when the video was requested.
C2_Witness ==
    /\ mode = "single"
    /\ last.op = "videoSucceedsNoContinuity"
    /\ last.nextSetAtCompletion
    /\ \E k \in Positions :
        /\ scenes[k].id = last.id
        /\ scenes[k].status = "completed"
        /\ k < Len(scenes)
        /\ scenes[k + 1].generatedImage \in GeneratedImages

\* C3: when the successor's start frame was set after the video request was
\* issued (the extraction was started for an empty slot) and before the
\* continuity write, the write leaves it as the other writer stored it: a
\* generated image, not the extracted frame.
C3_LateWriterKept ==
    [][last'.op = "extractSucceeds" =>
          \A k \in Positions :
              ( /\ scenes[k].id = last'.id
                /\ k < Len(scenes)
                /\ scenes[k + 1].generatedImage # Undefined ) =>
                  /\ scenes'[k + 1] = scenes[k + 1]
                  /\ scenes'[k + 1].generatedImage \in GeneratedImages
                  /\ scenes'[k + 1].generatedImage # LastFrameOf(scenes[k].videoUrl)]_vars

\* C3 witness: an extraction succeeded and found the slot set.
C3_Witness ==
    /\ last.op = "extractSucceeds"
    /\ last.nextSetAtWrite
    /\ ~last.wrote
    /\ \E k \in Positions :
        /\ scenes[k].id = last.id
        /\ k < Len(scenes)
        /\ scenes[k + 1].generatedImage \in GeneratedImages

\* C4, as claimed: once a shot's generatedImage is non-empty, no operation
\* replaces it with a different value.
C4_AsClaimed ==
    [][~Replaced =>
          \A k \in Positions :
              scenes[k].generatedImage # Undefined =>
                  scenes'[k].generatedImage = scenes[k].generatedImage]_vars

\* C4, amended: the continuity write checks at the moment of writing that
\* the slot is empty; the completion of a first-frame generation writes
\* without a check.  A non-empty generatedImage is replaced only by the
\* completion of a first-frame generation for that shot, with the image
\* generated, and is never emptied.
C4_OnlyGenerationReplaces ==
    [][~Replaced =>
          \A k \in Positions :
              ( /\ scenes[k].generatedImage # Undefined
                /\ scenes'[k].generatedImage # scenes[k].generatedImage ) =>
                  /\ last'.op = "imageSucceeds"
                  /\ last'.id = scenes[k].id
                  /\ scenes'[k].generatedImage \in GeneratedImages]_vars

\* C4 witness: a first-frame generation completed on a shot that held
\* another start frame.
C4_Witness ==
    /\ last.op = "imageSucceeds"
    /\ last.replaced
    /\ \E k \in Positions :
        scenes[k].id = last.id /\ scenes[k].generatedImage \in GeneratedImages

\* C5: when the extraction succeeds and the shot after the one whose video
\* completed exists with an empty start frame at write time, that shot's
\* generatedImage becomes the last frame of the video and its imageStatus
\* becomes completed.
C5_ContinuityWrites ==
    [][last'.op = "extractSucceeds" =>
          \A k \in Positions :
              ( /\ scenes[k].id = last'.id
                /\ k < Len(scenes)
                /\ scenes[k + 1].generatedImage = Undefined ) =>
                  /\ mode = "single"
                  /\ scenes[k].videoUrl # Undefined
                  /\ scenes'[k + 1].generatedImage = LastFrameOf(scenes[k].videoUrl)
                  /\ scenes'[k + 1].imageStatus = "completed"]_vars

\* C5 witness: the continuity write has been made.
C5_Witness ==
    /\ last.op = "extractSucceeds"
    /\ last.wrote
    /\ \E k \in Positions :
        /\ scenes[k].id = last.id
        /\ k < Len(scenes)
        /\ scenes[k + 1].generatedImage = LastFrameOf(scenes[k].videoUrl)
        /\ scenes[k + 1].imageStatus = "completed"

\* C6: a failed or timed-out extraction changes no shot: the shot keeps
\* status completed and its videoUrl, its successor's start frame stays as
\* it was, and no status or error message changes.
C6_ExtractionFailureSwallowed ==
    [][last'.op = "extractFails" =>
          /\ scenes' = scenes
          /\ \A k \in Positions :
                scenes[k].id = last'.id =>
                    /\ scenes'[k].status = "completed"
                    /\ scenes'[k].videoUrl # Undefined
                    /\ scenes'[k].errorMessage = Undefined]_vars

\* C6 witness: an extraction failed and the successor's start frame is
\* empty.
C6_Witness ==
    /\ last.op = "extractFails"
    /\ \E k \in Positions :
        /\ scenes[k].id = last.id
        /\ scenes[k].status = "completed"
        /\ k < Len(scenes)
        /\ scenes[k + 1].generatedImage = Undefined

\* C7: a handler step changes a shot other than the one it was requested
\* for only as the continuity write: in continuous mode, after the video of
\* the requested shot has completed, and on the shot right after it.
C7_ContinuityOnlyWhen ==
    [][(~Replaced /\ last'.op # "add") =>
          \A k \in Positions :
              (scenes'[k] # scenes[k] /\ scenes[k].id # last'.id) =>
                  /\ last'.op = "extractSucceeds"
                  /\ mode = "single"
                  /\ k > 1
                  /\ scenes[k - 1].id = last'.id
                  /\ scenes[k - 1].status = "completed"]_vars

\* C7 witness: in storyboard mode a video completed for a shot whose
\* successor has no start frame, and the handler returned.
C7_Witness ==
    /\ mode = "storyboard"
    /\ last.op = "videoSucceedsNoContinuity"
    /\ \E k \in Positions :
        /\ scenes[k].id = last.id
        /\ scenes[k].status = "completed"
        /\ k < Len(scenes)
        /\ scenes[k + 1].generatedImage = Undefined

--------------------------------------------------------------------------
(***************************************************************************)
(* Properties of withRetry, checked under RetrySpec.                       *)
(***************************************************************************)
\* The errors the specification classifies as retryable.
ClassifiedRetryable(e) ==
    \/ e.code \in {503, 500, 429}
    \/ e.status \in {"UNAVAILABLE", "INTERNAL", "RESOURCE_EXHAUSTED"}

Settled == call.pc \in {"resolved", "rejected"}

\* fn fails with a retryable error at its first k invocations.
FailsRetryably(k) ==
    \A j \in 1..k : ~call.script[j].ok /\ ClassifiedRetryable(call.script[j])

\* C8: when fn fails with a retryable error exactly k < N times and then
\* succeeds, withRetry resolves with fn's value and fn has been invoked
\* exactly k+1 times (and never more than k+1 times on the way).
C8_SucceedsAfterRetries ==
    \A k \in 0..(call.maxRetries - 1) :
        (FailsRetryably(k) /\ call.script[k + 1].ok) =>
            /\ call.invocations <= k + 1
            /\ Settled =>
                /\ call.pc = "resolved"
                /\ call.result = call.script[k + 1].value
                /\ call.invocations = k + 1

\* C8 witness: two retryable failures (one by code, one by status), then a
\* value, with maxRetries = 3.
C8_Witness ==
    /\ call.pc = "resolved"
    /\ call.maxRetries = 3
    /\ call.invocations = 3
    /\ call.script[1].code = 500
    /\ call.script[2].status = "UNAVAILABLE"
    /\ call.result = "r2"

\* C9: when fn fails with an error that is not retryable (no recognised
\* code or status) at its j-th invocation, withRetry rejects with that
\* error, no wait follows it and fn is not invoked again; for j = 1, fn is
\* invoked exactly once.
C9_NonRetryableFailsFast ==
    \A j \in 1..call.maxRetries :
        ( /\ FailsRetryably(j - 1)
          /\ ~call.script[j].ok
          /\ ~ClassifiedRetryable(call.script[j]) ) =>
            /\ call.invocations <= j
            /\ Len(call.waits) <= j - 1
            /\ call.invocations = j =>
                /\ call.pc = "rejected"
                /\ call.thrown = call.script[j]
            /\ Settled => call.invocations = j

\* C9 witness: an error with neither code nor status at the first
\* invocation, with retries left.
C9_Witness ==
    /\ call.pc = "rejected"
    /\ call.maxRetries = 3
    /\ call.invocations = 1
    /\ call.waits = <<>>
    /\ call.thrown = Err(0, "")

\* C10: withRetry invokes fn at most N times and cannot stop before it has
\* settled; when fn fails with a retryable error at every invocation, fn is
\* invoked exactly N times, N-1 waits have been made (none after the N-th
\* failure) and withRetry rejects with the error of the N-th invocation.
C10_BoundedAttempts ==
    /\ call.invocations <= call.maxRetries
    /\ Len(call.waits) <= call.invocations
    /\ ~Settled => ENABLED RetryNext
    /\ FailsRetryably(call.maxRetries) =>
        /\ Len(call.waits) <= call.maxRetries - 1
        /\ Settled =>
            /\ call.pc = "rejected"
            /\ call.invocations = call.maxRetries
            /\ Len(call.waits) = call.maxRetries - 1
            /\ call.thrown = call.script[call.maxRetries]

\* C10 witness: three retryable failures with maxRetries = 3.
C10_Witness ==
    /\ call.pc = "rejected"
    /\ call.maxRetries = 3
    /\ call.invocations = 3
    /\ Len(call.waits) = 2
    /\ ClassifiedRetryable(call.thrown)

\* The rate-limit and resource-exhaustion signals.
RateLimited(e) == e.code = 429 \/ e.status = "RESOURCE_EXHAUSTED"

\* C11, as claimed: the wait after failed attempt i (0-based) is 5000 * 2^i
\* when the failure is a rate-limit or resource-exhaustion error (code 429
\* or status RESOURCE_EXHAUSTED) and baseDelay * 2^i for every other
\* retryable error; the first wait after a rate-limit failure is at least
\* 5000.
C11_AsClaimed ==
    call.pc # "idle" =>
        \A k \in 1..Len(call.waits) :
            /\ call.waits[k] =
                 (IF RateLimited(call.script[k]) THEN 5000 ELSE call.baseDelay)
                    * 2^(k - 1)
            /\ (k = 1 /\ RateLimited(call.script[1])) => call.waits[1] >= 5000

--------------------------------------------------------------------------
(***************************************************************************)
(* Properties of the handlers' failure paths, checked under RunSpec.       *)
(***************************************************************************)
\* maxRetries when withRetry is given none (gemini.ts:46).
DefaultMaxRetries == 3

\* C12, as claimed: video generation runs through the retry executor: after
\* a rate-limit failure of its first attempt the collaborator is invoked a
\* second time, and a shot enters error only on a non-retryable error or
\* when the retry bound is exhausted.
C12_AsClaimed ==
    last.op = "videoFails" =>
        /\ RateLimited(last.error) => last.invocations >= 2
        /\ \/ ~IsRetryable(last.error)
           \/ last.invocations = DefaultMaxRetries

\* The shot an operation was requested for is in the sequence.
Requested(id) == \E k \in Positions : scenes[k].id = id

\* C13: when a first-frame request fails, the shot's imageStatus becomes
\* error, its imageErrorMessage is the message of the error caught, and its
\* generatedImage is what it was.
C13_ImageFailureRecorded ==
    [][last'.op = "imageFails" =>
          /\ Requested(last'.id)
          /\ last'.message \in Messages
          /\ \A k \in Positions :
                scenes[k].id = last'.id =>
                    /\ scenes'[k].imageStatus = "error"
                    /\ scenes'[k].imageErrorMessage = last'.message
                    /\ scenes'[k].generatedImage = scenes[k].generatedImage]_vars

\* C13 witness: a first-frame request failed on a shot that holds an image.
C13_Witness ==
    /\ last.op = "imageFails"
    /\ \E k \in Positions :
        /\ scenes[k].id = last.id
        /\ scenes[k].imageStatus = "error"
        /\ scenes[k].imageErrorMessage = last.message
        /\ scenes[k].generatedImage # Undefined

\* C14: a video request for a shot of the sequence ends recorded on that
\* shot: when generateVideoForScene resolves, status is completed and
\* videoUrl is the URL returned; when it rejects, whatever the error, status
\* is error and errorMessage is the error's message, or the fallback text
\* when it has none, hence never empty.
C14_VideoOutcomeRecorded ==
    [][/\ last'.op \in {"videoSucceeds", "videoSucceedsNoContinuity"} =>
            /\ Requested(last'.id)
            /\ \A k \in Positions :
                  scenes[k].id = last'.id =>
                      /\ scenes'[k].status = "completed"
                      /\ scenes'[k].videoUrl \in VideoUrls
                      /\ scenes'[k].errorMessage = Undefined
       /\ last'.op = "videoFails" =>
            /\ Requested(last'.id)
            /\ \A k \in Positions :
                  scenes[k].id = last'.id =>
                      /\ scenes'[k].status = "error"
                      /\ scenes'[k].errorMessage # Undefined
                      /\ scenes'[k].errorMessage =
                            (IF last'.message = Undefined THEN UnknownError
                             ELSE last'.message)
                      /\ scenes'[k].videoUrl = Undefined]_vars

\* C14 witness: a video request failed with an error that has no message.
C14_Witness ==
    /\ last.op = "videoFails"
    /\ last.message = Undefined
    /\ \E k \in Positions :
        /\ scenes[k].id = last.id
        /\ scenes[k].status = "error"
        /\ scenes[k].errorMessage = UnknownError

\* C15, as claimed: for every shot, imageErrorMessage is present only if
\* imageStatus is error, and errorMessage is present only if status is
\* error.
C15_AsClaimed ==
    \A k \in Positions :
        /\ scenes[k].imageErrorMessage # Undefined => scenes[k].imageStatus = "error"
        /\ scenes[k].errorMessage # Undefined => scenes[k].status = "error"

\* C16: for every shot, videoUrl is present only if status is completed.
C16_VideoUrlOnlyWhenCompleted ==
    \A k \in Positions :
        /\ scenes[k].videoUrl # Undefined => scenes[k].status = "completed"
        /\ scenes[k].videoUrl \in VideoUrls \cup {Undefined}

\* C16 witness: a shot completed at its second video request, beside a shot
\* in error.
C16_Witness ==
    \E k, j \in Positions :
        /\ scenes[k].status = "completed"
        /\ scenes[k].videoUrl \in VideoUrls
        /\ scenes[j].status = "error"
        /\ scenes[j].videoUrl = Undefined

ImageOps == {"requestFirstFrame", "imageSucceeds", "imageFails"}

VideoOps ==
    {"requestVideo", "videoSucceeds", "videoSucceedsNoContinuity", "videoFails"}

\* C17: a first-frame request, its completion and its failure leave the
\* shot's status, errorMessage and videoUrl unchanged; a video request, its
\* completion and its failure leave the same shot's imageStatus,
\* imageErrorMessage and generatedImage unchanged.
C17_ImageVideoIndependent ==
    [][\A k \in Positions :
          scenes[k].id = last'.id =>
              /\ last'.op \in ImageOps =>
                    /\ scenes'[k].status = scenes[k].status
                    /\ scenes'[k].errorMessage = scenes[k].errorMessage
                    /\ scenes'[k].videoUrl = scenes[k].videoUrl
              /\ last'.op \in VideoOps =>
                    /\ scenes'[k].imageStatus = scenes[k].imageStatus
                    /\ scenes'[k].imageErrorMessage = scenes[k].imageErrorMessage
                    /\ scenes'[k].generatedImage = scenes[k].generatedImage]_vars

\* C17 witness: a first frame is regenerated on a shot whose video is being
\* generated.
C17_Witness ==
    /\ last.op = "requestFirstFrame"
    /\ \E k \in Positions :
        /\ scenes[k].id = last.id
        /\ scenes[k].status = "generating_video"
        /\ scenes[k].imageStatus = "generating"
        /\ scenes[k].generatedImage # Undefined

\* C18: a failed image or video generation for a shot changes no other
\* shot and ends no other handler; the controls of the other shots are as
\* before, a slot for a new request is free, and the control that retries
\* the failed request is offered.
C18_FailureIsolated ==
    [][last'.op \in {"imageFails", "videoFails"} =>
          /\ tasks' \sqsubseteq tasks
          /\ BagCardinality(tasks') = BagCardinality(tasks) - 1
          /\ BagCardinality(tasks') < MaxTasks
          /\ \A t \in BagToSet(tasks) :
                t.id # last'.id => CopiesIn(t, tasks') = CopiesIn(t, tasks)
          /\ \A k \in Positions :
                IF scenes[k].id = last'.id
                THEN IF last'.op = "imageFails"
                     THEN CanRequestFirstFrame(mode', scenes'[k])
                     ELSE CanRequestVideo(scenes'[k])
                ELSE /\ scenes'[k] = scenes[k]
                     /\ CanRequestVideo(scenes'[k]) = CanRequestVideo(scenes[k])
                     /\ CanRequestFirstFrame(mode', scenes'[k])
                          = CanRequestFirstFrame(mode, scenes[k])]_vars

\* C18 witness: a generation failed for one shot while a handler for
\* another shot is in flight.
C18_Witness ==
    /\ last.op \in {"imageFails", "videoFails"}
    /\ Len(scenes) >= 2
    /\ \E t \in Running : t.id # last.id
    /\ \E k \in Positions :
        /\ scenes[k].id = last.id
        /\ "error" \in {scenes[k].status, scenes[k].imageStatus}

--------------------------------------------------------------------------
(***************************************************************************)
(* Properties of the script services, checked under ServiceSpec.           *)
(***************************************************************************)
PromptsSettled == svc.pc = "settled" /\ svc.fn = "prompts"

\* The answer supplies a visual prompt, an image prompt, for segment j.
SuppliesVisual(j) ==
    /\ svc.response.kind = "array"
    /\ j <= Len(svc.response.items)
    /\ ~svc.response.items[j].isNull
    /\ svc.response.items[j].visual_prompt \notin {Undefined, ""}

SuppliesImage(j) ==
    /\ svc.response.kind = "array"
    /\ j <= Len(svc.response.items)
    /\ ~svc.response.items[j].isNull
    /\ svc.response.items[j].image_prompt \notin {Undefined, ""}

\* The call returned one entry per input segment, in order, with the
\* placeholder wherever the answer supplied no prompt.
OneEntryPerSegment ==
    /\ svc.result.ok
    /\ Len(svc.result.value) = Len(svc.segments)
    /\ \A j \in 1..Len(svc.segments) :
        /\ svc.result.value[j].script_segment = svc.segments[j]
        /\ svc.result.value[j].visual_prompt =
             (IF SuppliesVisual(j) THEN svc.response.items[j].visual_prompt
              ELSE Placeholder)
        /\ svc.result.value[j].image_prompt =
             (IF SuppliesImage(j) THEN svc.response.items[j].image_prompt
              ELSE Placeholder)

\* C19, as claimed: for every list of n segments and every answer, the
\* result has exactly n entries, entry j carries segment j, and the entries
\* the answer did not supply carry the placeholder.
C19_AsClaimed == PromptsSettled => OneEntryPerSegment

\* The answer is read without an exception: it parses, and it is not `null`
\* read at some index.
AnswerReadable ==
    /\ svc.response.kind # "unparsable"
    /\ svc.response.kind = "null" => Len(svc.segments) = 0

\* C19, amended: for every list of n segments and every answer that parses
\* as JSON to something other than null, the result has exactly n entries,
\* entry j carries segment j, and each prompt the answer did not supply
\* (answer shorter than n, null entry, absent or empty prompt) is the
\* placeholder; an answer that does not parse, or null for a non-empty list,
\* makes the call throw.
C19_OneEntryPerSegment ==
    PromptsSettled =>
        IF AnswerReadable THEN OneEntryPerSegment ELSE ~svc.result.ok

\* C19 witness: two segments and an answer of one entry gave two entries,
\* the second with the placeholder.
C19_Witness ==
    /\ PromptsSettled
    /\ Len(svc.segments) = 2
    /\ svc.response.kind = "array"
    /\ Len(svc.response.items) = 1
    /\ SuppliesVisual(1)
    /\ svc.result.ok
    /\ Len(svc.result.value) = 2
    /\ svc.result.value[2].visual_prompt = Placeholder

SplitSettled == svc.pc = "settled" /\ svc.fn = "split"

\* The answer carries a non-empty array of segments.
AnswersSegments ==
    /\ svc.response.kind = "object"
    /\ svc.response.segmentsKind = "array"
    /\ Len(svc.response.segments) > 0

\* C20: for the shot durations the application offers and every answer, the
\* list returned has at most floor(24 / d) segments and is a prefix of the
\* answered list; on a parse failure or an empty or non-array segment list
\* it is the single-segment list of the script.
C20_SplitBounded ==
    SplitSettled =>
        /\ svc.result.ok
        /\ Len(svc.result.value) <= TotalSeconds \div svc.shotDuration
        /\ IF AnswersSegments
           THEN /\ Len(svc.result.value) <= Len(svc.response.segments)
                /\ \A j \in 1..Len(svc.result.value) :
                      svc.result.value[j] = svc.response.segments[j]
                /\ \/ Len(svc.result.value) = Len(svc.response.segments)
                   \/ Len(svc.result.value) = TotalSeconds \div svc.shotDuration
           ELSE svc.result.value = <<svc.script>>

\* C20 witness: an answer of four segments to a split at 8 seconds a shot
\* came back as its first three.
C20_Witness ==
    /\ SplitSettled
    /\ svc.shotDuration = 8
    /\ AnswersSegments
    /\ Len(svc.response.segments) = 4
    /\ Len(svc.result.value) = 3

\* C21: after a storyboard generation or a confirmed split that succeeded,
\* the sequence has one shot per triple returned, in the order returned,
\* with the triple's segment and prompts, distinct ids, status and
\* imageStatus idle and neither generatedImage nor videoUrl; after a
\* confirmed split there is one shot per confirmed segment, with that
\* segment.
C21_OneShotPerTriple ==
    svc.pc = "constructed" =>
        /\ Len(scenes) = Len(svc.result.value)
        /\ \A k \in 1..Len(scenes) :
            /\ scenes[k].scriptSegment = svc.result.value[k].script_segment
            /\ scenes[k].visualPrompt = svc.result.value[k].visual_prompt
            /\ scenes[k].imagePrompt = svc.result.value[k].image_prompt
            /\ scenes[k].status = "idle"
            /\ scenes[k].imageStatus = "idle"
            /\ scenes[k].generatedImage = Undefined
            /\ scenes[k].videoUrl = Undefined
            /\ \A j \in 1..Len(scenes) : scenes[j].id = scenes[k].id => j = k
        /\ svc.fn = "prompts" =>
            /\ Len(scenes) = Len(svc.segments)
            /\ \A k \in 1..Len(scenes) : scenes[k].scriptSegment = svc.segments[k]

\* C21 witness: two confirmed segments became two shots, the second from an
\* entry the answer did not supply.
C21_Witness ==
    /\ svc.pc = "constructed"
    /\ svc.fn = "prompts"
    /\ svc.segments = <<"a", "b">>
    /\ Len(svc.response.items) = 1
    /\ Len(scenes) = 2
    /\ scenes[2].scriptSegment = "b"
    /\ scenes[2].imagePrompt = Placeholder

--------------------------------------------------------------------------
(***************************************************************************)
(* Properties of manual add and of the continuity write, checked under     *)
(* RunSpec.                                                                *)
(***************************************************************************)
\* C22, as claimed: an added shot joins the end of the sequence idle and
\* without start frame, and whenever it was added, when the video of the
\* shot before it completes in continuous mode while its start frame is
\* empty, the handler goes on to extract the last frame for it.
C22_AsClaimed ==
    [][/\ last'.op = "add" =>
            /\ Len(scenes') = Len(scenes) + 1
            /\ SubSeq(scenes', 1, Len(scenes)) = scenes
            /\ scenes'[Len(scenes')].status = "idle"
            /\ scenes'[Len(scenes')].imageStatus = "idle"
            /\ scenes'[Len(scenes')].generatedImage = Undefined
       /\ ( /\ last'.op \in {"videoSucceeds", "videoSucceedsNoContinuity"}
            /\ mode = "single"
            /\ \E k \in Positions :
                /\ scenes[k].id = last'.id
                /\ k < Len(scenes)
                /\ scenes[k + 1].generatedImage = Undefined )
          => last'.op = "videoSucceeds"]_vars


--------------------------------------------------------------------------
\* A compressImage call that drew the decoded image on the canvas.
Drawn == svc.fn = "compress" /\ svc.pc = "settled" /\ svc.decodes /\ svc.hasContext
             /\ Text(svc.dataUrl) # ""

\* n is x = p / q rounded to the nearest integer, halves up:
\* n - 1/2 <= x < n + 1/2.
IsRounded(n, p, q) == 2 * n * q - q <= 2 * p /\ 2 * p < 2 * n * q + q

Longest(width, height) == IF width >= height THEN width ELSE height

(***************************************************************************)
(* C23: compressImage dimensions.  For a source image of width w and       *)
(* height h and bound B: if w > B or h > B the output is w*r by h*r        *)
(* rounded to the nearest integers, r = B / max(w, h) being the smaller of *)
(* B/w and B/h, so no side exceeds B and each side is within one half of   *)
(* the exactly scaled value; if w <= B and h <= B the output is w by h.    *)
(***************************************************************************)
C23_Dimensions ==
    Drawn =>
        LET w == svc.width
            h == svc.height
            B == svc.maxWidth
            out == svc.result.size
        IN IF w > B \/ h > B
           THEN /\ IsRounded(out[1], w * B, Longest(w, h))
                /\ IsRounded(out[2], h * B, Longest(w, h))
                /\ Longest(out[1], out[2]) <= B
           ELSE out = <<w, h>>

\* An image of 2048 by 1025 under the default bound: the exact height
\* 512.5 is rounded up.
C23_Witness ==
    /\ Drawn
    /\ svc.width = 2048 /\ svc.height = 1025 /\ svc.maxWidth = DefaultMaxWidth
    /\ svc.result.size = <<1024, 513>>

\* A compressImage call that resolved without drawing: the image did not
\* decode, or the canvas gave no context.
FellBack == svc.fn = "compress" /\ svc.pc = "settled" /\ Text(svc.dataUrl) # ""
               /\ ~(svc.decodes /\ svc.hasContext)

\* The payload of a data URL: what follows the comma, or the whole text
\* when it has no header.
Payload(u) == IF u.header = "" THEN Text(u) ELSE u.payload

(***************************************************************************)
(* C24: compressImage never fails.  Every call resolves exactly once and   *)
(* never rejects; when the source does not decode or no drawing context is *)
(* available, it resolves with the payload of the input unchanged and the  *)
(* tag image/png if the input names image/png, image/jpeg otherwise.       *)
(***************************************************************************)
C24_AsClaimed ==
    /\ svc.fn = "compress" => svc.rejected = 0 /\ svc.resolved <= 1
    /\ svc.fn = "compress" /\ svc.pc = "settled" => svc.resolved = 1
    /\ FellBack =>
          /\ svc.result.data = Payload(svc.dataUrl)
          /\ svc.result.mimeType =
                (IF NamesPng(svc.dataUrl) THEN "image/png" ELSE "image/jpeg")


--------------------------------------------------------------------------
Extracting == svc.fn = "extract"

\* The outcome of an extraction, as a state predicate.
C25_Outcome ==
    Extracting =>
        /\ svc.promise.state = "pending" =>
              svc.clock <= Deadline /\ svc.settles = 0
        /\ svc.promise.state # "pending" =>
              svc.promise.at <= Deadline /\ svc.settles >= 1
        /\ svc.promise.state = "resolved" =>
              svc.promise.value = Frame /\ svc.pc = "captured"
        /\ svc.promise.state = "rejected" =>
              /\ svc.promise.value = TimeoutError <=>
                    (svc.timeout = "fired" /\ svc.promise.at = Deadline)
              /\ svc.promise.value = VideoError => svc.pc = "failed"
              /\ svc.promise.value \in {ContextError, DrawError} =>
                    svc.pc = "captured" /\ svc.canvas # "draws"
        /\ (svc.pc = "failed" /\ svc.timeout # "fired") =>
              svc.promise.state = "rejected" /\ svc.promise.value = VideoError
        /\ TimeoutError \notin {VideoError, ContextError, DrawError}

(***************************************************************************)
(* C25: extractLastFrameFromVideo settles exactly once and no later than   *)
(* the 10 s timeout.  It resolves with the captured frame, rejects with    *)
(* the timeout failure when the 10 s elapse without capture or media       *)
(* error, or rejects with a failure other than the timeout failure: the    *)
(* decode failure on a media error, or the failure of the capture itself.  *)
(* Once settled the outcome never changes, whatever happens later, a       *)
(* capture after the timeout included.                                     *)
(***************************************************************************)
C25_SettlesOnceInTime ==
    [][/\ C25_Outcome /\ C25_Outcome'
       /\ (Extracting /\ svc.promise.state # "pending") =>
             svc'.promise = svc.promise]_vars

\* The timer fired, the promise was rejected with the timeout failure, and
\* the frame was captured afterwards.
C25_Witness ==
    /\ Extracting
    /\ svc.timeout = "fired"
    /\ svc.pc = "captured"
    /\ svc.canvas = "draws"
    /\ svc.settles = 2
    /\ svc.promise = [state |-> "rejected", value |-> TimeoutError,
                      at |-> Deadline]

(***************************************************************************)
(* C26: extractLastFrameFromVideo releases the media handle (source        *)
(* removed, element reloaded) on every exit path: once the promise is      *)
(* settled, by success, by a media error or by the timeout, the element    *)
(* holds no source.                                                        *)
(***************************************************************************)
C26_AsClaimed ==
    (Extracting /\ svc.promise.state # "pending") => ~svc.src


--------------------------------------------------------------------------
(***************************************************************************)
(* C27: the continuity write changes at most one shot, the one that stands *)
(* right after the shot whose video completed in the sequence as it is at  *)
(* the time of the write, and of that shot only generatedImage and         *)
(* imageStatus; every other shot, and every other field of that shot,      *)
(* stays as it was.                                                        *)
(***************************************************************************)
C27_WriteFrame ==
    [][last'.op = "extractSucceeds" =>
          /\ Len(scenes') = Len(scenes)
          /\ \A j \in Positions :
                scenes'[j] # scenes[j] =>
                    /\ j > 1
                    /\ scenes[j - 1].id = last'.id
                    /\ scenes'[j] =
                          [scenes[j] EXCEPT
                              !.generatedImage = scenes'[j].generatedImage,
                              !.imageStatus = scenes'[j].imageStatus]]_vars

\* C27 witness: the continuity write was made into a shot whose first-frame
\* generation had failed with a message, and the message is still there.
C27_Witness ==
    /\ last.op = "extractSucceeds"
    /\ last.wrote
    /\ \E k \in Positions :
        /\ scenes[k].id = last.id
        /\ k < Len(scenes)
        /\ scenes[k + 1].generatedImage = LastFrameOf(scenes[k].videoUrl)
        /\ scenes[k + 1].imageErrorMessage # Undefined

(***************************************************************************)
(* C28: explicit generation takes precedence over the inherited frame.     *)
(* When a first-frame generation completes for a shot, the shot's          *)
(* generatedImage is the image generated, also when the continuity step of *)
(* the shot before it wrote the extracted frame into the shot while the    *)
(* generation was in flight.                                               *)
(***************************************************************************)
C28_GenerationWins ==
    [][last'.op = "imageSucceeds" =>
          \A k \in Positions :
              scenes[k].id = last'.id =>
                  /\ scenes'[k].generatedImage \in GeneratedImages
                  /\ k > 1 =>
                        scenes'[k].generatedImage
                            # LastFrameOf(scenes[k - 1].videoUrl)
                  /\ scenes'[k].imageStatus = "completed"]_vars

\* C28 witness: the frame was written into the shot while its generation
\* was in flight, the generation completed in the next step, and the shot
\* holds the generated image.
C28_Witness ==
    /\ last.op = "imageSucceeds"
    /\ last.frameWrittenInFlight
    /\ last.replaced
    /\ \E k \in Positions :
        /\ scenes[k].id = last.id
        /\ k > 1
        /\ scenes[k - 1].videoUrl # Undefined
        /\ scenes[k].generatedImage \in GeneratedImages


--------------------------------------------------------------------------
(***************************************************************************)
(* Two withRetry calls in flight at once.  Each execution of withRetry has *)
(* its own fn, lastError and i (gemini.ts:46-48); the steps of the two     *)
(* executions interleave at their awaits.                                  *)
(***************************************************************************)
\* Variant of CounterOf: one loop counter for all the calls in flight.
CounterShared(calls, k) == calls[1].i + calls[2].i

\* gemini.ts:48: `let i` of the k-th execution.
CounterOf(calls, k) == calls[k].i

\* One step of an execution c of withRetry whose loop counter is i: the end
\* of the attempt under way (gemini.ts:50-59), or the end of the wait and
\* the loop test (gemini.ts:56-57, 48, 62).
Advance(c, i) ==
    IF c.pc = "attempt"
    THEN IF Outcome_fn(c).ok
         THEN [c EXCEPT !.pc = "resolved",
                        !.invocations = @ + 1,
                        !.result = Outcome_fn(c).value]
         ELSE IF ShouldRetry(Outcome_fn(c), i, c.maxRetries)
         THEN [c EXCEPT !.pc = "wait",
                        !.invocations = @ + 1,
                        !.lastError = Outcome_fn(c),
                        !.waits = Append(@, Delay(Outcome_fn(c), i,
                                                  c.baseDelay))]
         ELSE [c EXCEPT !.pc = "rejected",
                        !.invocations = @ + 1,
                        !.lastError = Outcome_fn(c),
                        !.thrown = Outcome_fn(c)]
    ELSE IF i + 1 < c.maxRetries
         THEN [c EXCEPT !.pc = "attempt", !.i = i + 1]
         ELSE [c EXCEPT !.pc = "rejected", !.i = i + 1,
                        !.thrown = c.lastError]

InFlight(c) == c.pc \in {"attempt", "wait"}

\* What the fn of a concurrent call does: it resolves, or rejects with a
\* retryable error, a rate limit or a bad request.
ConcurrentOutcomes ==
    {Ok("r1"), Err(503, ""), Err(429, ""), Err(400, "INVALID_ARGUMENT")}

ConcurrentInit ==
    /\ mode = "storyboard"
    /\ scenes = <<>>
    /\ tasks = EmptyBag
    /\ last = Outcome("init")
    /\ RetryIdle
    /\ \E s1 \in [1..DefaultMaxRetries -> ConcurrentOutcomes],
          s2 \in [1..DefaultMaxRetries -> ConcurrentOutcomes] :
          svc = [pc |-> "called", fn |-> "withRetry",
                 calls |-> <<NewCall(s1, DefaultMaxRetries, 2000),
                             NewCall(s2, DefaultMaxRetries, 2000)>>]

\* The attempt of the k-th call ends.
ConcurrentAttemptEnds(k) ==
    /\ svc.calls[k].pc = "attempt"
    /\ svc' = [svc EXCEPT !.calls[k] = Advance(@, CounterOf(svc.calls, k))]
    /\ UNCHANGED <<mode, scenes, tasks, last, call>>

\* The timer of the k-th call fires.
ConcurrentWaitElapsed(k) ==
    /\ svc.calls[k].pc = "wait"
    /\ svc' = [svc EXCEPT !.calls[k] = Advance(@, CounterOf(svc.calls, k))]
    /\ UNCHANGED <<mode, scenes, tasks, last, call>>

ConcurrentNext ==
    \/ \E k \in 1..2 : ConcurrentAttemptEnds(k)
    \/ \E k \in 1..2 : ConcurrentWaitElapsed(k)

ConcurrentSpec == ConcurrentInit /\ [][ConcurrentNext]_vars

--------------------------------------------------------------------------
\* The execution c run to its end with no other call in flight.
RECURSIVE RunAlone(_)
RunAlone(c) == IF InFlight(c) THEN RunAlone(Advance(c, c.i)) ELSE c

\* What the call c comes to when it is the only one from entry on.
Alone(c) == RunAlone(NewCall(c.script, c.maxRetries, c.baseDelay))

Concurrent == svc.fn = "withRetry"

(***************************************************************************)
(* C29: concurrent withRetry executions are independent.  With two calls   *)
(* in flight and their attempts and waits interleaved, a step of one call  *)
(* leaves the other as it was, and the invocations, the waits and the      *)
(* outcome of each call are those of the same call running alone: they     *)
(* depend on the successes and failures of its own fn only.                *)
(***************************************************************************)
C29_Independent ==
    [][Concurrent =>
          \A k \in 1..2 :
              /\ svc'.calls[k] # svc.calls[k] =>
                    /\ svc'.calls[3 - k] = svc.calls[3 - k]
                    /\ svc'.calls[k] = Advance(svc.calls[k], svc.calls[k].i)
              /\ RunAlone(svc'.calls[k]) = Alone(svc.calls[k])
              /\ ~InFlight(svc'.calls[k]) =>
                    /\ svc'.calls[k].invocations = Alone(svc.calls[k]).invocations
                    /\ svc'.calls[k].waits = Alone(svc.calls[k]).waits
                    /\ svc'.calls[k].result = Alone(svc.calls[k]).result
                    /\ svc'.calls[k].thrown = Alone(svc.calls[k]).thrown]_vars

\* C29 witness: both calls are waiting, the first after two rate-limited
\* attempts, the second after one unavailable attempt.
C29_Witness ==
    /\ Concurrent
    /\ svc.calls[1].pc = "wait"
    /\ svc.calls[1].invocations = 2
    /\ svc.calls[1].waits = <<5000, 10000>>
    /\ svc.calls[2].pc = "wait"
    /\ svc.calls[2].invocations = 1
    /\ svc.calls[2].waits = <<2000>>


--------------------------------------------------------------------------
(***************************************************************************)
(* handleGenerateFirstFrame with its prompts (part_000:138-166), as called *)
(* by the card of a shot (SceneCard.tsx:53-58).  svc.scenes is the current *)
(* sequence, of the one shot or empty once the script was replaced;        *)
(* svc.render is the shot as the render saw it in which the control was    *)
(* clicked, which is what the card and the handler's closure read.         *)
(***************************************************************************)
Falsy(x) == x \in {Undefined, ""}

\* Variant of UpdatePrompt that stores the video prompt only.
UpdatePromptVideoOnly(seq, id, newVideoPrompt, newImagePrompt) ==
    [k \in 1..Len(seq) |->
        IF seq[k].id = id
        THEN [seq[k] EXCEPT !.visualPrompt = newVideoPrompt]
        ELSE seq[k]]

\* part_000:134-136: handleUpdatePrompt
UpdatePrompt(seq, id, newVideoPrompt, newImagePrompt) ==
    [k \in 1..Len(seq) |->
        IF seq[k].id = id
        THEN [seq[k] EXCEPT !.visualPrompt = newVideoPrompt,
                            !.imagePrompt = newImagePrompt]
        ELSE seq[k]]

\* The shots a card can show with a first-frame control.
RenderedShots ==
    {[ShotFrom([script_segment |-> segment, visual_prompt |-> "video prompt",
                image_prompt |-> imagePrompt], 1)
         EXCEPT !.imageStatus = shown[1], !.generatedImage = shown[2],
                !.imageErrorMessage = shown[3]] :
        segment \in {"", "a"},
        imagePrompt \in {Undefined, "written"},
        shown \in {<<"idle", Undefined, Undefined>>,
                   <<"completed", "img1", Undefined>>,
                   <<"error", Undefined, "boom">>}}

PromptCall(segment) == <<"generateFirstFramePrompt", segment>>

ImageCall(prompt) == <<"generateImageFromPrompt", prompt>>

FirstFrameInit ==
    /\ mode = "single"
    /\ scenes = <<>>
    /\ tasks = EmptyBag
    /\ last = Outcome("init")
    /\ RetryIdle
    /\ \E shot \in RenderedShots :
          svc = [pc |-> "rendered", fn |-> "firstFrame", scenes |-> <<shot>>,
                 render |-> shot, promptOverride |-> Undefined,
                 promptToUse |-> Undefined, calls |-> <<>>,
                 promptResult |-> Undefined, promptFailed |-> FALSE]

\* SceneCard.tsx:53-58 and part_000:138-160 up to the first await: a click
\* on the first-frame control, in or out of the card's editing state.
ClickGenerateImage(isEditing, localVideoPrompt, localImagePrompt) ==
    /\ svc.pc = "rendered"
    /\ CanRequestFirstFrame(mode, svc.render)
    /\ LET saved == IF isEditing
                    THEN UpdatePrompt(svc.scenes, svc.render.id,
                                      localVideoPrompt, localImagePrompt)
                    ELSE svc.scenes
           promptOverride ==
               IF isEditing THEN localImagePrompt
               ELSE OrElse(svc.render.imagePrompt, svc.render.scriptSegment)
           promptToUse == OrElse(promptOverride, svc.render.imagePrompt)
       IN svc' = [svc EXCEPT
                    !.scenes = StartImage(saved, svc.render.id),
                    !.promptOverride = promptOverride,
                    !.promptToUse = promptToUse,
                    !.pc = IF Falsy(promptToUse) THEN "prompting"
                           ELSE "imaging",
                    !.calls = IF Falsy(promptToUse)
                              THEN <<PromptCall(svc.render.scriptSegment)>>
                              ELSE <<ImageCall(promptToUse)>>]
    /\ UNCHANGED <<mode, scenes, tasks, last, call>>

\* part_000:148-160: generateFirstFramePrompt resolved; the prompt is
\* stored and generateImageFromPrompt is called.
PromptResolves(prompt) ==
    /\ svc.pc = "prompting"
    /\ svc' = [svc EXCEPT
                 !.scenes = UpdatePrompt(@, svc.render.id,
                                         svc.render.visualPrompt, prompt),
                 !.promptResult = prompt,
                 !.promptToUse = prompt,
                 !.pc = "imaging",
                 !.calls = Append(@, ImageCall(prompt))]
    /\ UNCHANGED <<mode, scenes, tasks, last, call>>

\* part_000:148 and 163-165: generateFirstFramePrompt rejected.
PromptRejects(message) ==
    /\ svc.pc = "prompting"
    /\ svc' = [svc EXCEPT
                 !.scenes = ImageFailed(@, svc.render.id, message),
                 !.promptFailed = TRUE,
                 !.pc = "done"]
    /\ UNCHANGED <<mode, scenes, tasks, last, call>>

\* part_000:160-162: generateImageFromPrompt resolved.
ImageResolves(imageUrl) ==
    /\ svc.pc = "imaging"
    /\ svc' = [svc EXCEPT
                 !.scenes = ImageCompleted(@, svc.render.id, imageUrl),
                 !.pc = "done"]
    /\ UNCHANGED <<mode, scenes, tasks, last, call>>

\* part_000:160 and 163-165: generateImageFromPrompt rejected.
ImageRejects(message) ==
    /\ svc.pc = "imaging"
    /\ svc' = [svc EXCEPT
                 !.scenes = ImageFailed(@, svc.render.id, message),
                 !.pc = "done"]
    /\ UNCHANGED <<mode, scenes, tasks, last, call>>

\* SceneCard.tsx:42-45: the prompts of the card are saved while the
\* handler is waiting.
SavePrompt(localVideoPrompt, localImagePrompt) ==
    /\ svc.pc \in {"prompting", "imaging"}
    /\ svc' = [svc EXCEPT
                 !.scenes = UpdatePrompt(@, svc.render.id, localVideoPrompt,
                                         localImagePrompt)]
    /\ UNCHANGED <<mode, scenes, tasks, last, call>>

\* part_000:73, 93, 122: the sequence is replaced while the handler is
\* waiting.
ShotReplaced ==
    /\ svc.pc \in {"prompting", "imaging"}
    /\ svc.scenes # <<>>
    /\ svc' = [svc EXCEPT !.scenes = <<>>]
    /\ UNCHANGED <<mode, scenes, tasks, last, call>>

FirstFrameNext ==
    \/ \E isEditing \in BOOLEAN, localVideoPrompt \in {"video prompt", "edited"},
          localImagePrompt \in {"", "edited"} :
          ClickGenerateImage(isEditing, localVideoPrompt, localImagePrompt)
    \/ \E prompt \in {"generated"} : PromptResolves(prompt)
    \/ \E message \in Messages : PromptRejects(message)
    \/ \E imageUrl \in GeneratedImages : ImageResolves(imageUrl)
    \/ \E message \in Messages : ImageRejects(message)
    \/ \E localVideoPrompt \in {"video prompt", "edited"},
          localImagePrompt \in {"", "edited"} :
          SavePrompt(localVideoPrompt, localImagePrompt)
    \/ ShotReplaced

FirstFrameSpec == FirstFrameInit /\ [][FirstFrameNext]_vars

--------------------------------------------------------------------------
\* A first-frame request that was given no override for a shot without
\* image prompt.
NoPromptGiven ==
    /\ svc.fn = "firstFrame"
    /\ svc.pc # "rendered"
    /\ Falsy(svc.promptOverride)
    /\ Falsy(svc.render.imagePrompt)

ImageCalls == {j \in 1..Len(svc.calls) : svc.calls[j][1] = "generateImageFromPrompt"}

\* The order and the arguments of the collaborator calls made so far.
C30_Calls ==
    NoPromptGiven =>
        /\ Len(svc.calls) \in 1..2
        /\ svc.calls[1] = PromptCall(svc.render.scriptSegment)
        /\ ImageCalls \subseteq {2}
        /\ 2 \in ImageCalls =>
              /\ svc.promptResult # Undefined
              /\ svc.calls[2] = ImageCall(svc.promptResult)
        /\ svc.promptFailed =>
              /\ ImageCalls = {}
              /\ svc.pc = "done"

(***************************************************************************)
(* C30: a first-frame request for a shot without image prompt, given no    *)
(* override.  The prompt-generation collaborator is called first; its      *)
(* result is stored as the imagePrompt of the shot, if the shot is still   *)
(* there, in the step in which the image-generation collaborator is        *)
(* called, and that call is given exactly this prompt; when prompt         *)
(* generation fails, image generation is never called and the shot's       *)
(* imageStatus becomes error.                                              *)
(***************************************************************************)
C30_PromptFirst ==
    [][/\ C30_Calls'
       /\ (NoPromptGiven /\ svc'.calls # svc.calls) =>
             /\ svc.pc = "prompting"
             /\ svc'.calls = Append(svc.calls, ImageCall(svc'.promptResult))
             /\ svc'.scenes # <<>> =>
                   svc'.scenes[1].imagePrompt = svc'.promptResult
       /\ (NoPromptGiven /\ svc'.promptFailed /\ ~svc.promptFailed) =>
             /\ svc'.calls = svc.calls
             /\ svc'.scenes # <<>> =>
                   svc'.scenes[1].imageStatus = "error"]_vars

\* C30 witness: the prompt was generated and stored, and the image was
\* generated from it.
C30_Witness ==
    /\ NoPromptGiven
    /\ svc.pc = "done"
    /\ svc.calls = <<PromptCall(svc.render.scriptSegment), ImageCall("generated")>>
    /\ svc.scenes # <<>>
    /\ svc.scenes[1].imagePrompt = "generated"
    /\ svc.scenes[1].imageStatus = "completed"
    /\ svc.scenes[1].generatedImage \in GeneratedImages


--------------------------------------------------------------------------
(***************************************************************************)
(* handleGenerateVideo with its prompt, start frame and aspect ratio       *)
(* (part_000:191-202), as called by the card of a shot                     *)
(* (SceneCard.tsx:47-51).  svc.scenes is the current sequence of two       *)
(* shots, svc.aspectRatio the global setting, svc.flights[k] the arguments *)
(* generateVideoForScene was called with for the k-th shot while that call *)
(* is pending, svc.click the last click.                                   *)
(***************************************************************************)
AspectRatios == {"16:9", "9:16"}

NoFlight == [pending |-> FALSE, prompt |-> Undefined,
             firstFrameImage |-> Undefined, aspectRatio |-> Undefined]

NoClick == [k |-> 0, promptOverride |-> Undefined, visualPrompt |-> Undefined]

\* Variant of RecordedRatio: the setting at the time of the completion.
RecordedRatioCurrent(flight, current) == current

\* part_000:202: `aspectRatio` of the render the request was issued in,
\* which is what line 199 passed to generateVideoForScene.
RecordedRatio(flight, current) == flight.aspectRatio

\* part_000:192: the first update of handleGenerateVideo, prompt included.
StartVideoWith(seq, id, promptOverride) ==
    [k \in 1..Len(seq) |->
        IF seq[k].id = id
        THEN [StartVideo(seq, id)[k] EXCEPT
                 !.visualPrompt = OrElse(promptOverride, seq[k].visualPrompt)]
        ELSE seq[k]]

\* part_000:202: the update at completion, aspect ratio included.
VideoCompletedWith(seq, id, videoUrl, aspectRatio) ==
    [k \in 1..Len(seq) |->
        IF seq[k].id = id
        THEN [VideoCompleted(seq, id, videoUrl)[k] EXCEPT
                 !.aspectRatio = aspectRatio]
        ELSE seq[k]]

\* A shot as the script services construct it (no aspectRatio yet).
PlainShot(k, visualPrompt) ==
    ShotFrom([script_segment |-> "a", visual_prompt |-> visualPrompt,
              image_prompt |-> "image prompt"], k)
        @@ [aspectRatio |-> Undefined]

VideoRequestInit ==
    /\ mode = "storyboard"
    /\ scenes = <<>>
    /\ tasks = EmptyBag
    /\ last = Outcome("init")
    /\ RetryIdle
    /\ \E visualPrompt \in {"", "video prompt"} :
          svc = [pc |-> "running", fn |-> "video",
                 aspectRatio |-> "16:9",
                 scenes |-> <<PlainShot(1, visualPrompt),
                              PlainShot(2, "video prompt")>>,
                 flights |-> <<NoFlight, NoFlight>>,
                 click |-> NoClick]

\* part_000:261-262
SetAspectRatio(aspectRatio) ==
    /\ svc.fn = "video"
    /\ svc.aspectRatio # aspectRatio
    /\ svc' = [svc EXCEPT !.aspectRatio = aspectRatio, !.click = NoClick]
    /\ UNCHANGED <<mode, scenes, tasks, last, call>>

\* SceneCard.tsx:47-51 and part_000:191-201 up to the await: a click on
\* the video control of the k-th card, whose prompt field holds
\* localVideoPrompt, in or out of the editing state.
ClickGenerateVideo(k, isEditing, localVideoPrompt) ==
    /\ svc.fn = "video"
    /\ k \in 1..Len(svc.scenes)
    /\ CanRequestVideo(svc.scenes[k])
    /\ LET scene == svc.scenes[k]
           saved == IF isEditing \/ localVideoPrompt # scene.visualPrompt
                    THEN UpdatePrompt(svc.scenes, scene.id, localVideoPrompt,
                                      scene.imagePrompt)
                    ELSE svc.scenes
       IN svc' = [svc EXCEPT
                    !.scenes = StartVideoWith(saved, scene.id, localVideoPrompt),
                    !.flights[k] =
                        [pending |-> TRUE,
                         prompt |-> OrElse(localVideoPrompt, scene.visualPrompt),
                         firstFrameImage |-> scene.generatedImage,
                         aspectRatio |-> svc.aspectRatio],
                    !.click = [k |-> k, promptOverride |-> localVideoPrompt,
                               visualPrompt |-> scene.visualPrompt]]
    /\ UNCHANGED <<mode, scenes, tasks, last, call>>

\* part_000:162 or 214-223: the shot gets a start frame, possibly while
\* its video is being generated.
StartFrameArrives(k, imageUrl) ==
    /\ svc.fn = "video"
    /\ k \in 1..Len(svc.scenes)
    /\ svc.scenes[k].generatedImage = Undefined
    /\ svc' = [svc EXCEPT
                 !.scenes = ImageCompleted(@, svc.scenes[k].id, imageUrl),
                 !.click = NoClick]
    /\ UNCHANGED <<mode, scenes, tasks, last, call>>

\* part_000:196-202: generateVideoForScene resolved.
VideoResolves(k, videoUrl) ==
    /\ svc.fn = "video"
    /\ k \in 1..Len(svc.scenes)
    /\ svc.flights[k].pending
    /\ svc' = [svc EXCEPT
                 !.scenes = VideoCompletedWith(@, svc.scenes[k].id, videoUrl,
                                RecordedRatio(svc.flights[k], svc.aspectRatio)),
                 !.flights[k] = [@ EXCEPT !.pending = FALSE],
                 !.click = NoClick]
    /\ UNCHANGED <<mode, scenes, tasks, last, call>>

\* part_000:196-201 and 227-229: generateVideoForScene rejected.
VideoRejects(k, message) ==
    /\ svc.fn = "video"
    /\ k \in 1..Len(svc.scenes)
    /\ svc.flights[k].pending
    /\ svc' = [svc EXCEPT
                 !.scenes = VideoFailed(@, svc.scenes[k].id, message),
                 !.flights[k] = NoFlight,
                 !.click = NoClick]
    /\ UNCHANGED <<mode, scenes, tasks, last, call>>

VideoRequestNext ==
    \/ \E aspectRatio \in AspectRatios : SetAspectRatio(aspectRatio)
    \/ \E k \in 1..2, isEditing \in BOOLEAN,
          localVideoPrompt \in {"", "video prompt", "edited"} :
          ClickGenerateVideo(k, isEditing, localVideoPrompt)
    \/ \E k \in 1..2, imageUrl \in GeneratedImages :
          StartFrameArrives(k, imageUrl)
    \/ \E k \in 1..2, videoUrl \in VideoUrls : VideoResolves(k, videoUrl)
    \/ \E k \in 1..2, message \in Messages : VideoRejects(k, message)

VideoRequestSpec == VideoRequestInit /\ [][VideoRequestNext]_vars


--------------------------------------------------------------------------
\* The step is a click on the video control of a card.
VideoClicked == svc.fn = "video" /\ svc'.click.k # 0

(***************************************************************************)
(* C31: a video request with a prompt override stores the override as the  *)
(* shot's visualPrompt before the video-generation collaborator is         *)
(* invoked, and invokes it with the override, with the shot's start frame  *)
(* as it was when the request was issued and with the aspect ratio in      *)
(* force then; a request without override invokes the collaborator with    *)
(* the visualPrompt that is stored on the shot.                            *)
(***************************************************************************)
C31_AsClaimed ==
    [][VideoClicked =>
          LET k == svc'.click.k
              promptOverride == svc'.click.promptOverride
              sent == svc'.flights[k]
          IN /\ sent.pending
             /\ sent.firstFrameImage = svc.scenes[k].generatedImage
             /\ sent.aspectRatio = svc.aspectRatio
             /\ ~Falsy(promptOverride) =>
                   /\ svc'.scenes[k].visualPrompt = promptOverride
                   /\ sent.prompt = promptOverride
             /\ Falsy(promptOverride) =>
                   sent.prompt = svc'.scenes[k].visualPrompt]_vars

\* A video request has completed.
VideoRecorded(k) ==
    /\ svc.fn = "video"
    /\ ~svc.flights[k].pending
    /\ svc.flights[k].aspectRatio # Undefined
    /\ svc.scenes[k].status = "completed"

(***************************************************************************)
(* C32: the aspect ratio recorded on a shot when its video completes is    *)
(* the global aspect ratio of the moment the request was issued, which is  *)
(* the value passed to the video collaborator, also when the global        *)
(* setting changed while the generation was in flight; neither the         *)
(* completion nor the change of the setting touches the aspect ratio       *)
(* recorded on another shot.                                               *)
(***************************************************************************)
C32_RatioOfRequest ==
    [][svc.fn = "video" =>
          \A k \in 1..2 :
              /\ VideoClicked /\ svc'.click.k = k =>
                    svc'.flights[k].aspectRatio = svc.aspectRatio
              /\ (svc.flights[k].pending /\ svc'.scenes[k].status = "completed") =>
                    /\ svc'.scenes[k].aspectRatio = svc.flights[k].aspectRatio
                    /\ svc'.scenes[3 - k].aspectRatio = svc.scenes[3 - k].aspectRatio
              /\ svc'.aspectRatio # svc.aspectRatio =>
                    svc'.scenes[k].aspectRatio = svc.scenes[k].aspectRatio]_vars

\* C32 witness: the setting was changed while the first shot's video was
\* in flight; the shot records the ratio of its request, the other shot
\* the ratio of its own.
C32_Witness ==
    /\ VideoRecorded(1)
    /\ VideoRecorded(2)
    /\ svc.scenes[1].aspectRatio = "16:9"
    /\ svc.scenes[2].aspectRatio = "9:16"
    /\ svc.aspectRatio = "9:16"
    /\ svc.flights[1].aspectRatio = "16:9"


--------------------------------------------------------------------------
(***************************************************************************)
(* C33: no write to the shot sequence after a suspension point uses a      *)
(* value read before the suspension without validating it again.  In       *)
(* particular the step that persists the lazily generated image prompt     *)
(* leaves the shot's video prompt as it is at that moment, so that a       *)
(* change made to it while the prompt was being generated stays in place.  *)
(***************************************************************************)
C33_AsClaimed ==
    [][(/\ svc.fn = "firstFrame"
        /\ svc.pc = "prompting"
        /\ svc'.pc = "imaging"
        /\ svc.scenes # <<>>) =>
            svc'.scenes[1].visualPrompt = svc.scenes[1].visualPrompt]_vars


--------------------------------------------------------------------------
(***************************************************************************)
(* The remote calls that carry an image: generateVideoForScene             *)
(* (gemini.ts:414-463) with the start frame, and                           *)
(* generatePromptsForContinuousSegments (322-332) and                      *)
(* generateScenesFromScript (382-392) with the reference image.  For the   *)
(* video the poll loop, the download and the status of the shot that       *)
(* handleGenerateVideo set to generating_video are followed too.           *)
(***************************************************************************)
\* The polls counted; further polls happen and are not counted.
MaxPolls == 3

\* gemini.ts:446: setTimeout(resolve, 8000)
PollInterval == 8000

RemoteFns ==
    {"generateVideoForScene", "generatePromptsForContinuousSegments",
     "generateScenesFromScript"}

\* What compressImage resolves with for the call c: the result of
\* CompressNothing, CompressDraws or CompressFallsBack.
CompressedImage(c) ==
    IF Text(c.dataUrl) = ""
    THEN [data |-> "", mimeType |-> "", size |-> <<0, 0>>]
    ELSE IF c.decodes /\ c.hasContext
    THEN LET size == CanvasSize(c.width, c.height, c.maxWidth)
         IN [data |-> JpegOf(size), mimeType |-> "image/jpeg", size |-> size]
    ELSE [data |-> FallbackData(c.dataUrl),
          mimeType |-> FallbackMime(c.dataUrl), size |-> <<0, 0>>]

\* The images the application stores: a PNG data URL that the browser
\* decodes or not, with or without a 2d context for the canvas.
StoredImages ==
    {CompressCall([header |-> PngHeader, payload |-> "QUJD"], decodes,
                  2048, 1025, DefaultMaxWidth, hasContext) :
        decodes \in BOOLEAN, hasContext \in BOOLEAN}

NoImage == [data |-> Undefined, mimeType |-> Undefined]

\* Variant of RequestImage: the stored image itself, uncompressed.
RequestImageStored(stored, compressed) ==
    [data |-> stored.dataUrl.payload, mimeType |-> "image/png"]

\* gemini.ts:325, 385, 442: the image put into the request.
RequestImage(stored, compressed) ==
    [data |-> compressed.data, mimeType |-> compressed.mimeType]

\* Variant of LoopExits: the result is read at once.
LoopExitsAtOnce(operation) == TRUE

\* gemini.ts:445: the loop is left when the operation is done.
LoopExits(operation) == operation.done

NoOperation == [done |-> FALSE, uri |-> Undefined]

\* What the collaborator reports of the operation: not done, done with a
\* video, done without.
Operations ==
    {NoOperation, [done |-> TRUE, uri |-> "uri"],
     [done |-> TRUE, uri |-> Undefined]}

\* No image given: the argument is undefined.
NoStoredImage ==
    CompressCall([header |-> "", payload |-> ""], FALSE, 0, 0,
                 DefaultMaxWidth, FALSE)

RemoteCall(fn, image) ==
    [pc |-> "called", fn |-> fn, stored |-> image,
     compressed |-> Unsettled, requested |-> FALSE, image |-> NoImage,
     operation |-> NoOperation, timer |-> 0, waits |-> 0, polls |-> 0,
     status |-> IF fn = "generateVideoForScene" THEN "generating_video"
                ELSE "idle",
     errorMessage |-> Undefined]

RemoteInit ==
    /\ mode = "storyboard"
    /\ scenes = <<>>
    /\ tasks = EmptyBag
    /\ last = Outcome("init")
    /\ RetryIdle
    /\ \E fn \in RemoteFns, image \in StoredImages \cup {NoStoredImage} :
          svc = RemoteCall(fn, image)

\* gemini.ts:323, 383, 435: `if (image)` and the call of compressImage.
ImageTested ==
    /\ svc.pc = "called"
    /\ svc' = IF svc.stored # NoStoredImage
              THEN [svc EXCEPT !.pc = "compressing"]
              ELSE [svc EXCEPT !.pc = "remote", !.requested = TRUE]
    /\ UNCHANGED <<mode, scenes, tasks, last, call>>

\* gemini.ts:324-330, 384-390, 435-444: compressImage resolved; the image
\* is put into the request and the remote call is issued.
CompressSettles ==
    /\ svc.pc = "compressing"
    /\ LET compressed == CompressedImage(svc.stored)
       IN svc' = [svc EXCEPT !.pc = "remote",
                             !.compressed = compressed,
                             !.image = RequestImage(svc.stored, compressed),
                             !.requested = TRUE]
    /\ UNCHANGED <<mode, scenes, tasks, last, call>>

\* The position after the collaborator reported `operation`
\* (gemini.ts:445-459): wait, fetch the video, or throw for want of a link.
AfterReport(s, operation) ==
    IF ~LoopExits(operation)
    THEN [s EXCEPT !.pc = "waiting", !.operation = operation,
                   !.timer = PollInterval]
    ELSE IF operation.uri = Undefined
    THEN [s EXCEPT !.pc = "rejected", !.operation = operation,
                   !.status = "error", !.errorMessage = "no video link"]
    ELSE [s EXCEPT !.pc = "fetching", !.operation = operation]

\* gemini.ts:444: generateVideos resolved.
GenerateVideosResolves(operation) ==
    /\ svc.pc = "remote"
    /\ svc.fn = "generateVideoForScene"
    /\ svc' = AfterReport(svc, operation)
    /\ UNCHANGED <<mode, scenes, tasks, last, call>>

\* gemini.ts:446: the 8 s timer fired and getVideosOperation is called.
PollWaitElapsed ==
    /\ svc.pc = "waiting"
    /\ svc' = [svc EXCEPT !.pc = "polling",
                          !.waits = IF @ < MaxPolls THEN @ + 1 ELSE @]
    /\ UNCHANGED <<mode, scenes, tasks, last, call>>

\* gemini.ts:447: getVideosOperation resolved.
PollResolves(operation) ==
    /\ svc.pc = "polling"
    /\ svc' = [AfterReport(svc, operation) EXCEPT
                  !.polls = IF @ < MaxPolls THEN @ + 1 ELSE @]
    /\ UNCHANGED <<mode, scenes, tasks, last, call>>

\* gemini.ts:458-462: the download resolved with the video.
FetchResolves ==
    /\ svc.pc = "fetching"
    /\ svc' = [svc EXCEPT !.pc = "resolved", !.status = "completed"]
    /\ UNCHANGED <<mode, scenes, tasks, last, call>>

\* A call of the collaborator or the download rejected, or the download
\* answered without ok (gemini.ts:444, 447, 458-459); part_000:228.
RemoteRejects(message) ==
    /\ svc.pc \in {"remote", "polling", "fetching"}
    /\ svc.fn = "generateVideoForScene"
    /\ svc' = [svc EXCEPT !.pc = "rejected", !.status = "error",
                          !.errorMessage = message]
    /\ UNCHANGED <<mode, scenes, tasks, last, call>>

\* gemini.ts:329-361, 389-411: generateContent settled.
ContentSettles ==
    /\ svc.pc = "remote"
    /\ svc.fn # "generateVideoForScene"
    /\ svc' = [svc EXCEPT !.pc = "resolved"]
    /\ UNCHANGED <<mode, scenes, tasks, last, call>>

RemoteNext ==
    \/ ImageTested
    \/ CompressSettles
    \/ \E operation \in Operations : GenerateVideosResolves(operation)
    \/ PollWaitElapsed
    \/ \E operation \in Operations : PollResolves(operation)
    \/ FetchResolves
    \/ \E message \in Messages : RemoteRejects(message)
    \/ ContentSettles

RemoteSpec == RemoteInit /\ [][RemoteNext]_vars

\* The collaborator reports the operation done.
ReportsDone ==
    \E operation \in Operations :
        /\ operation.done
        /\ GenerateVideosResolves(operation) \/ PollResolves(operation)

\* RemoteSpec with its scheduling: timers fire, compressImage and the
\* remote calls settle; and the assumption that the collaborator reports
\* the operation done at some poll.
RemoteLiveSpec ==
    /\ RemoteSpec
    /\ WF_vars(RemoteNext)
    /\ SF_vars(ReportsDone)


--------------------------------------------------------------------------
VideoCall == svc.fn = "generateVideoForScene"

\* The steps of the poll loop.
C34_Loop ==
    VideoCall =>
        /\ (svc'.pc = "fetching" /\ svc.pc # "fetching") =>
              svc'.operation.done /\ svc'.operation.uri # Undefined
        /\ (svc'.errorMessage = "no video link" /\ svc.errorMessage = Undefined) =>
              svc'.operation.done /\ svc'.operation.uri = Undefined
        /\ (svc'.pc = "polling" /\ svc.pc # "polling") =>
              svc.pc = "waiting" /\ svc.timer = PollInterval
        /\ (svc.pc \in {"remote", "polling"} /\ svc'.pc \notin {svc.pc, "rejected"}
               /\ ~svc'.operation.done) =>
              svc'.pc = "waiting" /\ svc'.timer = PollInterval
        /\ svc.pc = "waiting" => ENABLED PollWaitElapsed
        /\ svc.pc = "polling" => ENABLED PollResolves(NoOperation)

(***************************************************************************)
(* C34: the video poll loop.  generateVideoForScene reads the result and   *)
(* downloads the video only after the collaborator reported the operation  *)
(* done, and queries the operation again after a wait of 8 s each time it  *)
(* is not done; whatever the number of polls so far, another wait and      *)
(* another poll that is not done are possible.  If the collaborator        *)
(* eventually reports the operation done, the shot eventually leaves       *)
(* generating_video for completed or error.                                *)
(***************************************************************************)
C34_PollLoop ==
    /\ [][C34_Loop]_vars
    /\ (VideoCall /\ svc.status = "generating_video")
           ~> (svc.status \in {"completed", "error"})

\* C34 witness: the operation was reported done after more polls than are
\* counted, and the video was downloaded.
C34_Witness ==
    /\ VideoCall
    /\ svc.polls = MaxPolls
    /\ svc.waits = MaxPolls
    /\ svc.operation.done
    /\ svc.pc = "resolved"
    /\ svc.status = "completed"


--------------------------------------------------------------------------
\* A remote call was issued for a call that was given an image.
SentWithImage ==
    /\ svc.fn \in RemoteFns
    /\ svc.requested
    /\ svc.stored # NoStoredImage

\* compressImage drew the stored image (it did not fall back).
Redrawn == svc.stored.decodes /\ svc.stored.hasContext

--------------------------------------------------------------------------
\* The ids of the shots, in order.
Ids(seq) == [k \in 1..Len(seq) |-> seq[k].id]

\* The steps of the generation handlers after their request: completions,
\* failures, the continuity steps, and what is left of them once their shot
\* was replaced.
SettlingOps ==
    {"imageSucceeds", "imageFails", "videoSucceeds",
     "videoSucceedsNoContinuity", "videoFails", "settleElapsed",
     "extractSucceeds", "extractFails", "staleSettles"}

(***************************************************************************)
(* C36: completions, failures and continuity writes of the generation      *)
(* handlers, and their requests, never add, remove or reorder shots and    *)
(* never change the id of a shot: the list of shot ids changes only by the *)
(* construction of shots from a script, by the add button and by a change  *)
(* of mode.                                                                *)
(***************************************************************************)
C36_IdsKept ==
    [][/\ last'.op \in SettlingOps => Ids(scenes') = Ids(scenes)
       /\ Ids(scenes') # Ids(scenes) =>
             last'.op \in {"construct", "add", "modeChange"}]_vars

\* C36 witness: the video of the last of two shots failed, and the two
\* shots are there as before.
C36_Witness ==
    /\ last.op = "videoFails"
    /\ last.id = 2
    /\ Ids(scenes) = <<1, 2>>
    /\ scenes[2].status = "error"

\* The fields of a shot agree.
Consistent(s) ==
    /\ s.status = "completed" => s.videoUrl # Undefined
    /\ s.imageStatus = "completed" => s.generatedImage # Undefined
    /\ s.status = "idle" => s.videoUrl = Undefined
    /\ s.imageStatus = "idle" => s.generatedImage = Undefined

(***************************************************************************)
(* C37: in every reachable state and for every shot, status completed      *)
(* implies a videoUrl, imageStatus completed implies a generatedImage,     *)
(* status idle implies no videoUrl, imageStatus idle implies no            *)
(* generatedImage; and neither status nor imageStatus of a shot returns to *)
(* idle once it has left it.                                               *)
(***************************************************************************)
C37_FieldsAgree ==
    [][/\ \A k \in Positions : Consistent(scenes[k])
       /\ \A k \in 1..Len(scenes') : Consistent(scenes'[k])
       /\ \A k \in Positions :
             k <= Len(scenes') =>
                 /\ scenes[k].status # "idle" => scenes'[k].status # "idle"
                 /\ scenes[k].imageStatus # "idle" =>
                       scenes'[k].imageStatus # "idle"]_vars

\* C37 witness: a shot that went through a failed and then a completed
\* video, and holds the frame inherited from the shot before it.
C37_Witness ==
    \E k \in Positions :
        /\ k > 1
        /\ scenes[k].status = "completed"
        /\ scenes[k].videoUrl \in VideoUrls
        /\ scenes[k].imageStatus = "completed"
        /\ scenes[k].generatedImage = LastFrameOf(scenes[k - 1].videoUrl)
        /\ scenes[k - 1].status = "completed"

\* The first-frame generations in flight for the shot `id`.
ImageFlights(id) == CopiesIn(ImageTask(id), tasks)

(***************************************************************************)
(* C38: whenever a first-frame generation for a shot is in flight, the     *)
(* shot's imageStatus is generating; so the card offers no second          *)
(* first-frame request for it, and at most one first-frame generation per  *)
(* shot is in flight.                                                      *)
(***************************************************************************)
C38_AsClaimed ==
    \A k \in Positions :
        /\ ImageFlights(scenes[k].id) <= 1
        /\ ImageFlights(scenes[k].id) > 0 =>
              /\ scenes[k].imageStatus = "generating"
              /\ ~CanRequestFirstFrame(mode, scenes[k])

(***************************************************************************)
(* C39: stale completions are inert.  When the shot sequence was replaced  *)
(* by a new construction or cleared by a change of mode while an image     *)
(* generation, a video generation or an extraction for an old shot was in  *)
(* flight, the completion, failure or continuity write that comes later    *)
(* changes no shot of the new sequence and adds none.                      *)
(***************************************************************************)
C39_StaleInert ==
    [][last'.op = "staleSettles" => scenes' = scenes]_vars

\* C39 witness: a handler of a replaced shot made its update while the new
\* sequence, in continuous mode, had a shot generating its video and an
\* empty start frame after it.
C39_Witness ==
    /\ last.op = "staleSettles"
    /\ mode = "single"
    /\ Len(scenes) = 2
    /\ scenes[1].status = "generating_video"
    /\ scenes[2].generatedImage = Undefined
    /\ scenes[2].imageStatus = "idle"

==========================================================================
